---- MODULE Spec2Model ----
(***************************************************************************)
(* A model of the two ZeroMQ command servers of the TEAM 0.5 automation    *)
(* repository:                                                             *)
(*   - GatanServer   (gatan_server.py): the receive/dispatch/reply loop,   *)
(*     the TIA/Gatan hand-off (is_gatan, set_is_gatan) and the file-based  *)
(*     synchronisation with DigitalMicrograph (script file, dm4 artifact); *)
(*   - BEACON_Server (microscope_server.py): the receive/dispatch/reply    *)
(*     loop of the microscope PC.                                          *)
(* Neither loop has an exception handler: an exception raised inside the   *)
(* `while True` body leaves __init__ and the process ends.  That is the    *)
(* position "dead" of a server below.                                      *)
(***************************************************************************)
EXTENDS Integers, Sequences, FiniteSets, TLC

(* ------------------------------ bounds --------------------------------- *)
\* requests a server receives in one run of the model
MaxRequests == 2
\* largest scan width/height a request carries (0 is an invalid size)
MaxSize == 1

(* --------------------------- Gatan server ------------------------------ *)
VARIABLES
    SIM,            \* self.SIM, the constructor argument sim
    is_gatan,       \* self.is_gatan, the tracked mode (TRUE = Gatan/Scripted)
    robot,          \* position last commanded with success to the TIA/Gatan robot
    g_pc,           \* position of the server in its loop
    command,        \* command of the request being processed
    params,         \* params of the request being processed
    message,        \* the local `message`, the reply to send
    prev_is_gatan,  \* the local prev_is_gatan of the acquisition branches
    dms,            \* the local dms, the rendered script text
    ret,            \* the local ret, the value acquire_*_scan returned
    files,          \* the dm4 artifacts on the Gatan PC, by path
    scripts,        \* the script files on the Gatan PC (DMSCRIPT, MBSCRIPT), by path
    engine,         \* DigitalMicrograph executing a script given with /ef
    g_requests,     \* requests received so far
    g_replies,      \* replies sent so far
    g_sent,         \* the last reply sent
    mode_at_recv,   \* is_gatan when the request being processed was received
    g_events,       \* what the handler of the current request did, in order
    g_error,        \* the exception that ended the server, "" while it runs
    established     \* the mode the last set_gatan or set_tia that returned set

gatanVars == <<SIM, is_gatan, robot, g_pc, command, params, message, prev_is_gatan,
               dms, ret, files, scripts, engine, g_requests, g_replies, g_sent,
               mode_at_recv, g_events, g_error, established>>

(* ------------------------- microscope server --------------------------- *)
VARIABLES
    m_pc,           \* position of BEACON_Server in its loop
    instruction,    \* self.d['type'] of the request being processed
    reply_message,  \* the local reply_message
    reply_data,     \* the local reply_data
    m_requests,     \* requests received so far
    m_replies,      \* replies sent so far
    m_sent,         \* the last reply_d sent
    m_error,        \* the exception that ended the server, "" while it runs
    refImage,       \* self.refImage, the stored reference image
    frames,         \* images the microscope has acquired so far
    m_at_recv       \* refImage and frames when the request being processed was received

\* what the microscope server keeps between requests, and the instrument
instVars == <<refImage, frames>>

micVars == <<m_pc, instruction, reply_message, reply_data, m_requests, m_replies,
             m_sent, m_error, instVars, m_at_recv>>

(* ------------- microscope server: aberrations and the 'ac' step -------- *)
VARIABLES
    d,              \* self.d, the request the aberration handler reads
    corrector,      \* the aberration offsets the CEOS corrector holds, by name
    defocus,        \* Proj.Defocus of the microscope
    ab_before,      \* corrector and defocus when the handler started
    ab_calls,       \* the calls the handler made to corrector and microscope
    ab_pc,          \* position of the handler
    ab_error        \* the exception that ended the handler, "" if none

abVars == <<d, corrector, defocus, ab_before, ab_calls, ab_pc, ab_error>>

(* ----------------------- client: center_region ------------------------- *)
VARIABLES
    cr_args,        \* the arguments ntries, max_distance, image_stage_cal_factor
    ii,             \* iterations of the for loop that have been started
    cenetered,      \* the local the loop assigns (line 760, line 775)
    cr_offsets,     \* the offsets registration returned, in order
    cr_moves,       \* the relative stage moves sent, in order
    cr_pc,          \* position inside center_region
    cr_error        \* the exception center_region raised, "" if none

crVars == <<cr_args, ii, cenetered, cr_offsets, cr_moves, cr_pc, cr_error>>

(* ------------------ clients and the server's socket -------------------- *)
VARIABLES
    srv_queue,      \* requests that arrived at the REP socket and were not received
    srv_pc,         \* position of the server in its loop
    srv_request,    \* the request the server is processing
    in_progress,    \* requests whose handler has started and is not replied to
    sock,           \* state of each client's REQ socket
    cl_inbox,       \* replies that arrived at each client's REQ socket
    cl_pc,          \* position of each client inside send_traffic
    cl_calls,       \* calls of send_traffic each client has made
    cl_sent,        \* requests each client's socket has accepted
    cl_ret,         \* what each client's last call of send_traffic returned
    cl_timed_out    \* the first call of each client whose recv timed out, 0 if none

netVars == <<srv_queue, srv_pc, srv_request, in_progress, sock, cl_inbox, cl_pc,
             cl_calls, cl_sent, cl_ret, cl_timed_out>>

(* ------------------------ client: registration ------------------------- *)
VARIABLES
    reg_in,         \* the images and the pixel calibration registration is called with
    reg_out         \* the offsets the calls of registration returned, in order

regVars == <<reg_in, reg_out>>

(* ----------------------- client: focus_stem_image ---------------------- *)
VARIABLES
    af_pc,          \* where focus_stem_image is
    af_runs,        \* the samples the optimizer has still to ask for
    model_max,      \* beacon_client.model_max: the optimizer's best estimate
    af_ins,         \* the corrector and the defocus of the microscope
    af_log          \* the calls the server made on the instrument, in order

afVars == <<af_pc, af_runs, model_max, af_ins, af_log>>

(* -------------------- data tools: data held in memory ------------------ *)
VARIABLES
    data,           \* the module's dictionary data: file_id -> the file it was read from
    metadata,       \* the module's dictionary metadata, with the same keys
    file_ids,       \* the number of file_ids load_image has returned
    freed,          \* the file_ids in memory when delete_data_in_memory was last called
    nc_ret          \* the last tool call and what it returned

ncVars == <<data, metadata, file_ids, freed, nc_ret>>

(* ------------- microscope server: commands on the instrument ----------- *)
VARIABLES
    t_pc,           \* position of BEACON_Server in its loop and in the handler
    t_d,            \* self.d, the request being processed
    tem,            \* the microscope: stage, defocus, magnification, rotation, blanker, valve
    t_wd,           \* the beam tilt WD the corrector holds
    t_ref,          \* self.refImage: the number of the 'ref' request that stored it, 0 for None
    t_log,          \* what the handler of the current request did to the instrument, in order
    t_at_recv,      \* tem, t_wd and t_ref when the request being processed was received
    t_last_move,    \* the last completed stage command and the stage position before it
    t_reply,        \* the last reply_d sent
    t_requests      \* requests received so far

temVars == <<t_pc, t_d, tem, t_wd, t_ref, t_log, t_at_recv, t_last_move, t_reply,
             t_requests>>

(* ------------------- client: the tools of the Gatan PC ----------------- *)
VARIABLES
    g_tool,         \* the tool being called and its arguments
    g_tool_pc,      \* "idle", "running", "returned" or "raised"
    g_tool_sent     \* the calls of gatan_client.send_traffic the tool has made

toolVars == <<g_tool, g_tool_pc, g_tool_sent>>

\* what an action of the Gatan server, and of the microscope server, leaves alone
outsideGatan == <<micVars, abVars, crVars, netVars, regVars, afVars, temVars, ncVars, toolVars>>
outsideMic == <<gatanVars, abVars, crVars, netVars, regVars, afVars, temVars, ncVars, toolVars>>
outsideAb == <<gatanVars, micVars, crVars, netVars, regVars, afVars, temVars, ncVars, toolVars>>
outsideCr == <<gatanVars, micVars, abVars, netVars, regVars, afVars, temVars, ncVars, toolVars>>
outsideNet == <<gatanVars, micVars, abVars, crVars, regVars, afVars, temVars, ncVars, toolVars>>
outsideReg == <<gatanVars, micVars, abVars, crVars, netVars, afVars, temVars, ncVars, toolVars>>
outsideAf == <<gatanVars, micVars, abVars, crVars, netVars, regVars, temVars, ncVars, toolVars>>
outsideTem == <<gatanVars, micVars, abVars, crVars, netVars, regVars, afVars, ncVars, toolVars>>
outsideNc == <<gatanVars, micVars, abVars, crVars, netVars, regVars, afVars, temVars, toolVars>>

\* what a step of a tool, which sends to the Gatan server, leaves alone
outsideTool == <<micVars, abVars, crVars, netVars, regVars, afVars, temVars, ncVars>>

vars == <<gatanVars, micVars, abVars, crVars, netVars, regVars, afVars, temVars, ncVars,
          toolVars>>

None == "None"

(* ------------------------- files and scripts --------------------------- *)
\* self.dm4_filename, the artifact the server deletes, polls and parses
dm4_filename == "latest_4Dscan.dm4"
\* the file the STEM template saves its image to
haadf_filename == "latest_HAADF_scan.dm4"
DMSCRIPT == "4Dcamera_automation_acquireScan_temp.s"
MBSCRIPT == "move_beam.s"
ArtifactPaths == {dm4_filename, haadf_filename}
ScriptPaths == {DMSCRIPT, MBSCRIPT}

\* An artifact is identified by the request whose engine run saved it:
\* Artifact(0) was on disk before the server started, Absent is no file.
Absent == [exists |-> FALSE, saved_by |-> 0]
Artifact(n) == [exists |-> TRUE, saved_by |-> n]
StaleArtifact == Artifact(0)

Sizes == 0..MaxSize
\* shifts of the beam a move_beam request carries, in pixels
Shifts == {1, 2}
\* params of a request: the mapping of an acquisition (pwidth, pheight), or the
\* pair of move_beam, whose elements params[0] and params[1] are p0 and p1;
\* the part a command does not carry is 0
ScanParams == [pwidth : Sizes, pheight : Sizes, p0 : {0}, p1 : {0}]
NoParams == [pwidth |-> 0, pheight |-> 0, p0 |-> 0, p1 |-> 0]
Pair(first, second) == [pwidth |-> 0, pheight |-> 0, p0 |-> first, p1 |-> second]
BeamParams == {Pair(first, second) : first \in Shifts, second \in Shifts}
\* a script: its template, the scan size substituted, what the script adds to
\* the beam position X and Y, and the file it saves
NoScript == [template |-> None, width |-> 0, height |-> 0, addX |-> 0, addY |-> 0,
             save |-> None]

\* dm_scripts.acquire_4Dcamera_script: the text is the template with the
\* parameters substituted; its last SaveAsGatan writes latest_4Dscan.dm4
acquire_4Dcamera_script(p) ==
    [template |-> "4Dcamera", width |-> p.pwidth, height |-> p.pheight,
     addX |-> 0, addY |-> 0, save |-> dm4_filename]

\* dm_scripts.acquire_stem_script: its SaveAsGatan writes latest_HAADF_scan.dm4
acquire_stem_script(p) ==
    [template |-> "stem", width |-> p.pwidth, height |-> p.pheight,
     addX |-> 0, addY |-> 0, save |-> haadf_filename]

\* dm_scripts.move_beam_script(dX, dY), lines 141-172: `number newX = X+{dX}`,
\* `number newY = Y+{dY}`, DSPositionBeam(im, newX, newY); saves nothing
move_beam_script(dX, dY) ==
    [template |-> "move_beam", width |-> 0, height |-> 0, addX |-> dX, addY |-> dY,
     save |-> None]

AcquireCommands == {"acquire_4dcamera_scan", "acquire_stem_scan"}
GatanCommands == {"tia_or_gatan", "set_gatan", "set_tia", "set_roi", "move_beam",
                  "get_pixel_size"} \cup AcquireCommands
\* a tag that no branch of a dispatcher names
UnknownCommand == "invalid_command_xyz"

\* the tuple (tag, value) the Gatan server pickles; value is read only
\* together with the tag that fixes its type
Message(tag, value) == [tag |-> tag, value |-> value]
NoMessage == Message(None, None)

EngineIdle == [st |-> "idle", script |-> NoScript, run |-> 0]

GatanInit ==
    /\ SIM \in BOOLEAN
    /\ is_gatan = FALSE
    /\ robot = FALSE
    /\ g_pc = "recv"
    /\ command = None
    /\ params = NoParams
    /\ message = NoMessage
    /\ prev_is_gatan = FALSE
    /\ dms = NoScript
    /\ ret = Absent
    /\ files \in [ArtifactPaths -> {Absent, StaleArtifact}]
    /\ scripts = [f \in ScriptPaths |-> NoScript]
    /\ engine = EngineIdle
    /\ g_requests = 0
    /\ g_replies = 0
    /\ g_sent = NoMessage
    /\ mode_at_recv = FALSE
    /\ g_events = <<>>
    /\ g_error = ""
    /\ established = FALSE

(* ----------------------- Gatan server: the loop ------------------------ *)
\* An exception that nothing catches leaves the `while True` of __init__.
Raises(err) ==
    /\ g_pc' = "dead"
    /\ g_error' = err

\* line 48-53: recv, unpickle into (command, params), message = None; the
\* request is one of a client that is not in the middle of a tool
GatanRecv ==
    /\ g_pc = "recv"
    /\ g_tool_pc = "idle"
    /\ g_requests < MaxRequests
    /\ \E c \in GatanCommands \cup {UnknownCommand} :
         /\ command' = c
         /\ params' \in (IF c \in AcquireCommands THEN ScanParams
                         ELSE IF c = "move_beam" THEN BeamParams ELSE {NoParams})
    /\ message' = NoMessage
    /\ g_requests' = g_requests + 1
    /\ mode_at_recv' = is_gatan
    /\ g_events' = <<>>
    /\ g_pc' = "dispatch"
    /\ UNCHANGED <<SIM, is_gatan, robot, prev_is_gatan, dms, ret, files, scripts,
                   engine, g_replies, g_sent, g_error, established, outsideGatan>>

\* line 94: send the pickled message, back to recv
GatanSend ==
    /\ g_pc = "send"
    /\ g_sent' = message
    /\ g_replies' = g_replies + 1
    /\ g_pc' = "recv"
    /\ UNCHANGED <<SIM, is_gatan, robot, command, params, message, prev_is_gatan,
                   dms, ret, files, scripts, engine, g_requests, mode_at_recv,
                   g_events, g_error, established, outsideGatan>>

(* ----------------------- Gatan server: hand-off ------------------------ *)
\* set_Gatan() and set_TIA2() drive the robot; they are external and may raise.
\* In simulation mode set_is_gatan calls neither.
HandOffOutcomes == IF SIM THEN {TRUE} ELSE BOOLEAN

\* the robot call set_is_gatan(ig) makes: set_Gatan for True, set_TIA2 for False
RobotCall(ig) == IF ig THEN "set_Gatan" ELSE "set_TIA2"

\* the exception of a robot call that fails
HandOffError(ig) == IF ig THEN "set_Gatan raised" ELSE "set_TIA2 raised"

\* set_is_gatan(ig), lines 235-243: the robot call unless SIM, then return ig
set_is_gatan(ig, ok) ==
    /\ robot' = IF ~SIM /\ ok THEN ig ELSE robot
    /\ g_events' = g_events \o <<IF ig THEN "set_is_gatan(True)" ELSE "set_is_gatan(False)">>
                            \o (IF SIM THEN <<>> ELSE <<RobotCall(ig)>>)

\* a variant that records the new mode before the robot call has returned
AssignIsGatanEarly(ig, ok) ==
    /\ set_is_gatan(ig, ok)
    /\ is_gatan' = ig

\* self.is_gatan = self.set_is_gatan(ig): the assignment happens only if the
\* call returned
AssignIsGatan(ig, ok) ==
    /\ set_is_gatan(ig, ok)
    /\ is_gatan' = IF ok THEN ig ELSE is_gatan

\* a variant that reports the mode the constructor set (line 27)
ModeAtConstruction == FALSE

\* line 56: the mode the reply carries is the attribute self.is_gatan
ReportedMode == is_gatan

\* line 55-56
TiaOrGatan ==
    /\ g_pc = "dispatch"
    /\ command = "tia_or_gatan"
    /\ message' = Message("is_gatan", ReportedMode)
    /\ g_pc' = "send"
    /\ UNCHANGED <<SIM, is_gatan, robot, command, params, prev_is_gatan, dms, ret,
                   files, scripts, engine, g_requests, g_replies, g_sent,
                   mode_at_recv, g_events, g_error, established, outsideGatan>>

\* lines 57-62: set_gatan and set_tia call set_is_gatan whatever the mode is
SetMode ==
    /\ g_pc = "dispatch"
    /\ command \in {"set_gatan", "set_tia"}
    /\ \E ok \in HandOffOutcomes :
         /\ AssignIsGatan(command = "set_gatan", ok)
         /\ established' = IF ok THEN (command = "set_gatan") ELSE established
         /\ IF ok
              THEN /\ message' = Message("is_gatan", command = "set_gatan")
                   /\ g_pc' = "send"
                   /\ UNCHANGED g_error
              ELSE /\ Raises(HandOffError(command = "set_gatan"))
                   /\ UNCHANGED message
    /\ UNCHANGED <<SIM, command, params, prev_is_gatan, dms, ret, files, scripts,
                   engine, g_requests, g_replies, g_sent, mode_at_recv, outsideGatan>>

(* --------------------- Gatan server: acquisition ----------------------- *)
\* line 66 and 75: `if not self.is_gatan`
SwitchInNeeded == ~is_gatan

\* a variant that always switches back after the acquisition
RestoreAlways == TRUE

\* line 69 and 78: `if self.is_gatan != prev_is_gatan`
RestoreNeeded == is_gatan # prev_is_gatan

\* lines 65-67 and 74-76: record the mode, switch to Gatan if it is not active.
\* A failing hand-off raises out of the loop: nothing after it runs.
AcquireSwitchIn ==
    /\ g_pc = "dispatch"
    /\ command \in AcquireCommands
    /\ prev_is_gatan' = is_gatan
    /\ IF SwitchInNeeded
         THEN \E ok \in HandOffOutcomes :
                /\ AssignIsGatan(TRUE, ok)
                /\ IF ok THEN g_pc' = "render" /\ UNCHANGED g_error
                         ELSE Raises(HandOffError(TRUE))
         ELSE /\ g_pc' = "render"
              /\ UNCHANGED <<is_gatan, robot, g_events, g_error>>
    /\ UNCHANGED <<SIM, command, params, message, dms, ret, files, scripts, engine,
                   g_requests, g_replies, g_sent, mode_at_recv, established, outsideGatan>>

\* a variant that renders the template without the request's parameters
RenderedFromDefaults(c, p) ==
    IF c = "acquire_4dcamera_scan" THEN acquire_4Dcamera_script(NoParams)
                                   ELSE acquire_stem_script(NoParams)

\* The script the command's call_*_script renders.  call_4DCam_script names
\* dm_script.dynamic_dm_script and call_stem_script dm_script.acquire_stem_script
\* (lines 215 and 152); the templates are those of dm_scripts.py.
RenderedScript(c, p) ==
    IF c = "acquire_4dcamera_scan" THEN acquire_4Dcamera_script(p)
                                   ELSE acquire_stem_script(p)

\* lines 152-154 and 215-216.  The module is imported as dm_scripts (line 17)
\* and the name dm_script is bound nowhere, so in this revision the lookup
\* raises NameError; a params mapping without a key raises KeyError.  Both are
\* the outcome "raise".  The outcome "ok" is the render of the template, kept
\* so that the steps after the render are part of the model.
Render ==
    /\ g_pc = "render"
    /\ \E ok \in BOOLEAN :
         IF ok
           THEN /\ dms' = RenderedScript(command, params)
                /\ g_events' = Append(g_events, "render")
                /\ g_pc' = "write"
                /\ UNCHANGED g_error
           ELSE /\ Raises("render failed")
                /\ UNCHANGED <<dms, g_events>>
    /\ UNCHANGED <<SIM, is_gatan, robot, command, params, message, prev_is_gatan,
                   ret, files, scripts, engine, g_requests, g_replies, g_sent,
                   mode_at_recv, established, outsideGatan>>

\* lines 156-158 and 218-220: write dms to DMSCRIPT; in simulation mode
\* call_*_script is finished after the write
WriteScript ==
    /\ g_pc = "write"
    /\ scripts' = [scripts EXCEPT ![DMSCRIPT] = dms]
    /\ g_events' = Append(g_events, "write")
    /\ g_pc' = IF SIM THEN "parse" ELSE "delete"
    /\ UNCHANGED <<SIM, is_gatan, robot, command, params, message, prev_is_gatan,
                   dms, ret, files, engine, g_requests, g_replies, g_sent,
                   mode_at_recv, g_error, established, outsideGatan>>

\* a variant that leaves the previous artifact on disk
KeptOnDisk(fs) == fs

\* lines 160-161 and 222-223: unlink dm4_filename if it exists
Unlinked(fs) == [fs EXCEPT ![dm4_filename] = Absent]

DeleteOld ==
    /\ g_pc = "delete"
    /\ files' = Unlinked(files)
    /\ g_events' = Append(g_events, IF files[dm4_filename].exists
                                       THEN "unlink" ELSE "nothing to unlink")
    /\ g_pc' = "invoke"
    /\ UNCHANGED <<SIM, is_gatan, robot, command, params, message, prev_is_gatan,
                   dms, ret, scripts, engine, g_requests, g_replies, g_sent,
                   mode_at_recv, g_error, established, outsideGatan>>

\* lines 164-165 and 226-227: call DigitalMicrograph.exe /ef DMSCRIPT.  The
\* engine reads the script file; a program that cannot be started raises.
Invoke ==
    /\ g_pc = "invoke"
    /\ \E ok \in BOOLEAN :
         IF ok
           THEN /\ engine' = [st |-> "running", script |-> scripts[DMSCRIPT],
                              run |-> g_requests]
                /\ g_events' = Append(g_events, "invoke")
                /\ g_pc' = "poll"
                /\ UNCHANGED g_error
           ELSE /\ Raises("engine failed to launch")
                /\ UNCHANGED <<engine, g_events>>
    /\ UNCHANGED <<SIM, is_gatan, robot, command, params, message, prev_is_gatan,
                   dms, ret, files, scripts, g_requests, g_replies, g_sent,
                   mode_at_recv, established, outsideGatan>>

\* DigitalMicrograph runs the script to its end: SaveAsGatan writes the file
\* the template names (dm_scripts.py line 133, line 228)
EngineSave ==
    /\ engine.st = "running"
    /\ engine.script.save \in ArtifactPaths
    /\ files' = [files EXCEPT ![engine.script.save] = Artifact(engine.run)]
    /\ engine' = [engine EXCEPT !.st = "saved"]
    /\ UNCHANGED <<SIM, is_gatan, robot, g_pc, command, params, message,
                   prev_is_gatan, dms, ret, scripts, g_requests, g_replies, g_sent,
                   mode_at_recv, g_events, g_error, established, outsideGatan>>

\* DigitalMicrograph stops before the script saves anything
EngineFail ==
    /\ engine.st = "running"
    /\ engine' = [engine EXCEPT !.st = "failed"]
    /\ UNCHANGED <<SIM, is_gatan, robot, g_pc, command, params, message,
                   prev_is_gatan, dms, ret, files, scripts, g_requests, g_replies,
                   g_sent, mode_at_recv, g_events, g_error, established, outsideGatan>>

\* the path the wait loop tests, lines 167 and 229
PollPath == dm4_filename

\* lines 167-169 and 229-231: `while not self.dm4_filename.exists(): sleep(0.1)`;
\* the loop is left when the file exists, and sleeping changes nothing
Poll ==
    /\ g_pc = "poll"
    /\ files[PollPath].exists
    /\ g_events' = Append(g_events, "exists")
    /\ g_pc' = "parse"
    /\ UNCHANGED <<SIM, is_gatan, robot, command, params, message, prev_is_gatan,
                   dms, ret, files, scripts, engine, g_requests, g_replies, g_sent,
                   mode_at_recv, g_error, established, outsideGatan>>

\* lines 136-147 and 186-198: dmReader and fileDM on dm4_filename; a missing or
\* malformed file raises
Parse ==
    /\ g_pc = "parse"
    /\ \E ok \in (IF files[dm4_filename].exists THEN BOOLEAN ELSE {FALSE}) :
         IF ok
           THEN /\ ret' = files[dm4_filename]
                /\ g_events' = Append(g_events, "parse")
                /\ g_pc' = "restore"
                /\ UNCHANGED g_error
           ELSE /\ Raises("parse failed")
                /\ UNCHANGED <<ret, g_events>>
    /\ UNCHANGED <<SIM, is_gatan, robot, command, params, message, prev_is_gatan,
                   dms, files, scripts, engine, g_requests, g_replies, g_sent,
                   mode_at_recv, established, outsideGatan>>

\* lines 69-71 and 78-80: switch back if the mode changed, build the reply
Restore ==
    /\ g_pc = "restore"
    /\ IF RestoreNeeded
         THEN \E ok \in HandOffOutcomes :
                /\ AssignIsGatan(prev_is_gatan, ok)
                /\ IF ok THEN /\ message' = Message("gatan_data", ret)
                              /\ g_pc' = "send"
                              /\ UNCHANGED g_error
                         ELSE /\ Raises(HandOffError(prev_is_gatan))
                              /\ UNCHANGED message
         ELSE /\ message' = Message("gatan_data", ret)
              /\ g_pc' = "send"
              /\ UNCHANGED <<is_gatan, robot, g_events, g_error>>
    /\ UNCHANGED <<SIM, command, params, prev_is_gatan, dms, ret, files, scripts,
                   engine, g_requests, g_replies, g_sent, mode_at_recv, established,
                   outsideGatan>>

(* ------------------- Gatan server: other commands ---------------------- *)
\* lines 81-83
SetRoi ==
    /\ g_pc = "dispatch"
    /\ command = "set_roi"
    /\ message' = Message("set_roi", params)
    /\ g_pc' = "send"
    /\ UNCHANGED <<SIM, is_gatan, robot, command, params, prev_is_gatan, dms, ret,
                   files, scripts, engine, g_requests, g_replies, g_sent,
                   mode_at_recv, g_events, g_error, established, outsideGatan>>

\* move_beam(self, dX, dY), lines 101-108: the script is that of the template
\* for the arguments in the order they are received
move_beam(dX, dY) == move_beam_script(dX, dY)

\* lines 84-87 and 101-118: `self.move_beam(params[0], params[1])`: render
\* and write the move-beam script, call DigitalMicrograph unless SIM (the
\* script saves no artifact)
MoveBeam ==
    /\ g_pc = "dispatch"
    /\ command = "move_beam"
    /\ scripts' = [scripts EXCEPT ![MBSCRIPT] = move_beam(params.p0, params.p1)]
    /\ \E ok \in (IF SIM THEN {TRUE} ELSE BOOLEAN) :
         IF ok
           THEN /\ message' = Message("beam moved", 0)
                /\ g_pc' = "send"
                /\ UNCHANGED g_error
           ELSE /\ Raises("engine failed to launch")
                /\ UNCHANGED message
    /\ UNCHANGED <<SIM, is_gatan, robot, command, params, prev_is_gatan, dms, ret,
                   files, engine, g_requests, g_replies, g_sent, mode_at_recv,
                   g_events, established, outsideGatan>>

\* lines 88-90: `self.get_pixel_size(nn)`; nn is bound nowhere: NameError
GetPixelSize ==
    /\ g_pc = "dispatch"
    /\ command = "get_pixel_size"
    /\ Raises("NameError: nn")
    /\ UNCHANGED <<SIM, is_gatan, robot, command, params, message, prev_is_gatan,
                   dms, ret, files, scripts, engine, g_requests, g_replies, g_sent,
                   mode_at_recv, g_events, established, outsideGatan>>

\* lines 91-92: the else branch prints {upd}; upd is bound nowhere: NameError
GatanUnknown ==
    /\ g_pc = "dispatch"
    /\ command \notin GatanCommands
    /\ Raises("NameError: upd")
    /\ UNCHANGED <<SIM, is_gatan, robot, command, params, message, prev_is_gatan,
                   dms, ret, files, scripts, engine, g_requests, g_replies, g_sent,
                   mode_at_recv, g_events, established, outsideGatan>>

NextGatan ==
    \/ GatanRecv
    \/ TiaOrGatan
    \/ SetMode
    \/ AcquireSwitchIn
    \/ Render
    \/ WriteScript
    \/ DeleteOld
    \/ Invoke
    \/ EngineSave
    \/ EngineFail
    \/ Poll
    \/ Parse
    \/ Restore
    \/ SetRoi
    \/ MoveBeam
    \/ GetPixelSize
    \/ GatanUnknown
    \/ GatanSend

(* ---------------------- microscope server: loop ------------------------ *)
\* the tags the if/elif chain of BEACON_Server.__init__ names, lines 593-685
MicInstructions ==
    {"ping", "c1a1", "tableau", "ac", "ab_only", "ref", "image", "move_stage",
     "move_stage_goto", "get_mag", "get_stage_pos", "get_camera_length",
     "get_camera_length_index", "get_defocus", "get_voltage", "set_mag",
     "set_camera_length_index", "set_defocus", "open_column_valve",
     "close_column_valve", "blank_beam", "unblank_beam", "get_screenshot",
     "get_condenser_stigmator", "set_condenser_stigmator", "get_convergence_angle",
     "get_stem_rotation", "set_stem_rotation"}

\* branches that call a method TIA_control does not define (it defines
\* get_condensor_stigmator twice and get_stem_convergence_angle): AttributeError
MissingMethodInstructions ==
    {"get_condenser_stigmator", "set_condenser_stigmator", "get_convergence_angle"}

\* the instructions the model sends: ping, some of each kind of handler, and a
\* tag the chain does not name
SentInstructions ==
    {"ping", "get_mag", "move_stage", "image", "ref", "ac", "get_convergence_angle",
     UnknownCommand}

\* branches whose handler acquires an image with microscope_acquire_image
ImagingInstructions == {"ref", "image", "ac"}

\* the value of reply_data: None, the return value of a handler, or an image;
\* an image is identified by its number in the sequence of acquisitions
NoData == [kind |-> None, frame |-> 0]
HandlerData == [kind |-> "data", frame |-> 0]
Image(n) == [kind |-> "image", frame |-> n]

\* the reply_message of each branch
ReplyMessageOf(i) ==
    CASE i = "ping" -> "pinged"
      [] i = "get_mag" -> "mag obtained"
      [] i = "move_stage" -> "stage moved"
      [] i = "image" -> "image acquired"
      [] i = "ref" -> "reference image set"
      [] OTHER -> i

\* lines 691-692: reply_d has the keys reply_message and reply_data, no other
ReplyD(rm, rd) == [reply_message |-> rm, reply_data |-> rd]

MicInit ==
    /\ m_pc = "recv"
    /\ instruction = None
    /\ reply_message = None
    /\ reply_data = NoData
    /\ m_requests = 0
    /\ m_replies = 0
    /\ m_sent = ReplyD(None, NoData)
    /\ m_error = ""
    /\ refImage = NoData
    /\ frames = 0
    /\ m_at_recv = instVars

\* lines 588-591: recv, unpickle, instruction = self.d['type']
MicRecv ==
    /\ m_pc = "recv"
    /\ m_requests < MaxRequests
    /\ instruction' \in SentInstructions
    /\ m_requests' = m_requests + 1
    /\ m_at_recv' = instVars
    /\ m_pc' = "dispatch"
    /\ UNCHANGED <<reply_message, reply_data, m_replies, m_sent, m_error, instVars,
                   outsideMic>>

\* a variant that answers with another text
Ponged == "pong"

\* line 594: reply_message = 'pinged'
Pinged == "pinged"

\* lines 593-595
MicPing ==
    /\ m_pc = "dispatch"
    /\ instruction = "ping"
    /\ reply_message' = Pinged
    /\ reply_data' = NoData
    /\ m_pc' = "send"
    /\ UNCHANGED <<instruction, m_requests, m_replies, m_sent, m_error, instVars,
                   m_at_recv, outsideMic>>

\* lines 596-685, a branch whose handler exists: the handler reads its
\* parameters from self.d and calls the instrument; it returns or it raises
\* (a missing key, a COM error), and nothing catches what it raises
MicHandler ==
    /\ m_pc = "dispatch"
    /\ instruction \in MicInstructions \
          ({"ping"} \cup MissingMethodInstructions \cup ImagingInstructions)
    /\ \E ok \in BOOLEAN :
         IF ok
           THEN /\ reply_message' = ReplyMessageOf(instruction)
                /\ reply_data' = HandlerData
                /\ m_pc' = "send"
                /\ UNCHANGED m_error
           ELSE /\ m_pc' = "dead"
                /\ m_error' = "handler raised"
                /\ UNCHANGED <<reply_message, reply_data>>
    /\ UNCHANGED <<instruction, m_requests, m_replies, m_sent, instVars, m_at_recv,
                   outsideMic>>

\* a variant of the 'image' and 'ac' branches that keeps the image as reference
KeptAsReference(img) == img

\* lines 602-604 and 612-614: the branches 'ac' and 'image' do not assign
\* self.refImage (corr_cutout, lines 858-861, only reads it)
RefImageAfterImaging(img) == refImage

\* lines 602-604, 608-614: the reply_message is assigned, then the handler
\* acquires an image or raises.  'ref' stores the image in self.refImage and
\* replies with it, 'image' replies with it, 'ac' replies with the metric.
MicImaging ==
    /\ m_pc = "dispatch"
    /\ instruction \in ImagingInstructions
    /\ \E ok \in BOOLEAN :
         IF ok
           THEN /\ frames' = frames + 1
                /\ refImage' = IF instruction = "ref"
                                  THEN Image(frames + 1)
                                  ELSE RefImageAfterImaging(Image(frames + 1))
                /\ reply_message' = ReplyMessageOf(instruction)
                /\ reply_data' = IF instruction = "ac" THEN HandlerData
                                                       ELSE Image(frames + 1)
                /\ m_pc' = "send"
                /\ UNCHANGED m_error
           ELSE /\ m_pc' = "dead"
                /\ m_error' = "handler raised"
                /\ reply_message' = IF instruction = "ref" THEN reply_message
                                       ELSE ReplyMessageOf(instruction)
                /\ UNCHANGED <<reply_data, instVars>>
    /\ UNCHANGED <<instruction, m_requests, m_replies, m_sent, m_at_recv, outsideMic>>

\* lines 671-678: reply_message is assigned, then the call raises AttributeError
MicMissingMethod ==
    /\ m_pc = "dispatch"
    /\ instruction \in MissingMethodInstructions
    /\ reply_message' = ReplyMessageOf(instruction)
    /\ m_pc' = "dead"
    /\ m_error' = "AttributeError"
    /\ UNCHANGED <<instruction, reply_data, m_requests, m_replies, m_sent, instVars,
                   m_at_recv, outsideMic>>

\* lines 686-688: the else branch sets reply_message and reply_data to None
MicUnknown ==
    /\ m_pc = "dispatch"
    /\ instruction \notin MicInstructions
    /\ reply_message' = None
    /\ reply_data' = NoData
    /\ m_pc' = "send"
    /\ UNCHANGED <<instruction, m_requests, m_replies, m_sent, m_error, instVars,
                   m_at_recv, outsideMic>>

\* lines 690-693: build reply_d and send it
MicSend ==
    /\ m_pc = "send"
    /\ m_sent' = ReplyD(reply_message, reply_data)
    /\ m_replies' = m_replies + 1
    /\ m_pc' = "recv"
    /\ UNCHANGED <<instruction, reply_message, reply_data, m_requests, m_error,
                   instVars, m_at_recv, outsideMic>>

NextMic ==
    \/ MicRecv
    \/ MicPing
    \/ MicHandler
    \/ MicImaging
    \/ MicMissingMethod
    \/ MicUnknown
    \/ MicSend

(* ------------- microscope server: abChange and the 'ac' step ----------- *)
\* keys of ab_values: 'C1' and 'C3' have two characters, the others end in
\* _x or _y (lines 718-729)
AbKeys == {"C1", "C3", "B2_x", "B2_y"}
TwoCharKeys == {"C1", "C3"}
EndsWithX == {"B2_x"}
EndsWithY == {"B2_y"}
\* ab_keys[i][:2]
FirstTwo(key) == IF key \in {"B2_x", "B2_y"} THEN "B2" ELSE key
\* the names correctAberration is called with, 'We' is the beam shift
CorrectorNames == {"C1", "C3", "B2", "We"}

\* the deltas a request carries, in the unit of the request
Deltas == {-1, 0, 2}
\* the coil selections of ab_select (mcp_library.py lines 252-264)
Selects == {None, "coarse"}
\* largest number of entries of ab_values
MaxEntries == 2

Entry(key, val) == [key |-> key, val |-> val]
\* ab_values: a dict, that is entries in insertion order with distinct keys
AbValueDicts ==
    {S \in UNION {[1..n -> [key : AbKeys, val : Deltas]] : n \in 1..MaxEntries} :
        \A i, j \in 1..Len(S) : S[i].key = S[j].key => i = j}
KeysOf(S) == {S[i].key : i \in 1..Len(S)}

\* ssf_dict of comp_shift_calc, lines 760-773, in units of 1/400
ssf_dict(ab) ==
    CASE ab = "B2_x" -> <<2, 0>>
      [] ab = "B2_y" -> <<3, -1>>
      [] OTHER -> <<0, 0>>

RECURSIVE SumShifts(_, _, _)
SumShifts(S, i, axis) ==
    IF i = 0 THEN 0
    ELSE SumShifts(S, i - 1, axis) + S[i].val * ssf_dict(S[i].key)[axis]

\* comp_shift_calc, lines 739-791: comp_x = -shift_x / We_x_ssf and
\* comp_y = -shift_y / We_y_ssf with We_x_ssf = 21/10 and We_y_ssf = -21/10.
\* The result is kept in units of 1/840 = 1/(400 * 21/10), so it is an integer:
\* comp_x = -sum(val * ssf[0]), comp_y = +sum(val * ssf[1]).
comp_shift_calc(S) ==
    <<0 - SumShifts(S, Len(S), 1), SumShifts(S, Len(S), 2)>>

\* a variant that applies the same values on undo
Unsigned(v, undo) == v

\* lines 717-719: on undo ab_vals[i] = -ab_vals[i]
Signed(v, undo) == IF undo THEN 0 - v ELSE v

CorrectorCall(name, value, select) ==
    [fn |-> "correctAberration", name |-> name, value |-> value, select |-> select]
DefocusCall(df) ==
    [fn |-> "change_defocus", name |-> "defocus", value |-> <<df, 0>>, select |-> None]

\* a variant that sends every C1 entry to the corrector, whatever the flag
CallOfIgnoringFlag(key, v, select, flag) ==
    IF key \in TwoCharKeys
      THEN CorrectorCall(key, <<v, 0>>, select)
      ELSE IF key \in EndsWithX
             THEN CorrectorCall(FirstTwo(key), <<v, 0>>, select)
             ELSE CorrectorCall(FirstTwo(key), <<0, v>>, select)

\* lines 721-733: the call abChange makes for one entry of ab_values
CallOf(key, v, select, flag) ==
    IF key \in TwoCharKeys
      THEN IF key = "C1" /\ flag
             THEN DefocusCall(v)
             ELSE CorrectorCall(key, <<v, 0>>, select)
      ELSE IF key \in EndsWithX
             THEN CorrectorCall(FirstTwo(key), <<v, 0>>, select)
             ELSE CorrectorCall(FirstTwo(key), <<0, v>>, select)

\* lines 735-737: the compensation is computed from ab_values, the dict that
\* was passed in, not from the negated list ab_vals
CompensationCalls(S, bs) ==
    IF bs THEN <<CorrectorCall("We", comp_shift_calc(S), None)>> ELSE <<>>

\* a variant that walks the entries backwards on undo
LastFirstOnUndo(S, undo) ==
    [i \in 1..Len(S) |-> IF undo THEN Len(S) + 1 - i ELSE i]

\* line 721: `for i in range(len(ab_values))`, on apply and on undo
EntryOrder(S, undo) == [i \in 1..Len(S) |-> i]

\* abChange, lines 695-737: the calls it makes, in order
abChange(S, select, flag, undo, bs) ==
    [i \in 1..Len(S) |->
        LET e == S[EntryOrder(S, undo)[i]]
        IN  CallOf(e.key, Signed(e.val, undo), select[e.key], flag)]
        \o CompensationCalls(S, bs)

\* the instrument: correctAberration offsets the named aberration by value
\* (lines 102-131), change_defocus adds df to Proj.Defocus (lines 395-408)
Instrument(c, df) == [corrector |-> c, defocus |-> df]
Offset(a, b) == <<a[1] + b[1], a[2] + b[2]>>
AfterCall(ins, call) ==
    IF call.fn = "change_defocus"
      THEN Instrument(ins.corrector, ins.defocus + call.value[1])
      ELSE Instrument([ins.corrector EXCEPT ![call.name] = Offset(@, call.value)],
                      ins.defocus)

RECURSIVE AfterCalls(_, _, _)
\* the instrument after the first k calls of the sequence
AfterCalls(ins, calls, k) ==
    IF k = 0 THEN ins
    ELSE AfterCall(AfterCalls(ins, calls, k - 1), calls[k])

\* the requests 'ac' and 'ab_only' the model sends
AbRequests ==
    UNION {[type : {"ac", "ab_only"}, ab_values : {S},
            ab_select : [KeysOf(S) -> Selects],
            C1_defocus_flag : BOOLEAN, bscomp : BOOLEAN] : S \in AbValueDicts}

\* the handler is not running
AbOff ==
    /\ d = [type |-> None, ab_values |-> <<>>, ab_select |-> <<>>,
            C1_defocus_flag |-> FALSE, bscomp |-> FALSE]
    /\ corrector = [n \in CorrectorNames |-> <<0, 0>>]
    /\ defocus = 0
    /\ ab_before = Instrument(corrector, defocus)
    /\ ab_calls = <<>>
    /\ ab_pc = "off"
    /\ ab_error = ""

\* lines 588-591: a request 'ac' or 'ab_only' has been received into self.d
AbInit ==
    /\ d \in AbRequests
    /\ corrector = [n \in CorrectorNames |-> <<0, 0>>]
    /\ defocus = 0
    /\ ab_before = Instrument(corrector, defocus)
    /\ ab_calls = <<>>
    /\ ab_pc = "dispatch"
    /\ ab_error = ""

\* One run of abChange.  A call to the corrector or to the microscope may
\* raise (communicate, lines 44-76, catches nothing): then the calls before
\* it have taken effect and the exception leaves the server loop.
RunAbChange(undo, next) ==
    LET calls == abChange(d.ab_values, d.ab_select, d.C1_defocus_flag, undo, d.bscomp)
    IN  \E k \in 0..Len(calls) :
          LET ins == AfterCalls(Instrument(corrector, defocus), calls, k)
          IN  /\ corrector' = ins.corrector
              /\ defocus' = ins.defocus
              /\ ab_calls' = ab_calls \o SubSeq(calls, 1, k)
              /\ IF k = Len(calls)
                   THEN ab_pc' = next /\ UNCHANGED ab_error
                   ELSE ab_pc' = "dead" /\ ab_error' = "call raised"

\* a variant in which 'ab_only' runs abChange with undo
AbOnlyUndone == TRUE

\* line 607: 'ab_only' runs abChange with undo=False, whatever the request says
AbOnlyUndo == FALSE

\* lines 605-607: 'ab_only' applies the deltas and replies
AbOnly ==
    /\ ab_pc = "dispatch"
    /\ d.type = "ab_only"
    /\ RunAbChange(AbOnlyUndo, "send")
    /\ UNCHANGED <<d, ab_before, outsideAb>>

\* line 976: 'ac' applies the deltas
AcApply ==
    /\ ab_pc = "dispatch"
    /\ d.type = "ac"
    /\ RunAbChange(FALSE, "acquire")
    /\ UNCHANGED <<d, ab_before, outsideAb>>

\* line 977: microscope_acquire_image returns the image or raises
AcAcquire ==
    /\ ab_pc = "acquire"
    /\ \E ok \in BOOLEAN :
         IF ok THEN ab_pc' = "undo" /\ UNCHANGED ab_error
               ELSE ab_pc' = "dead" /\ ab_error' = "acquire raised"
    /\ UNCHANGED <<d, corrector, defocus, ab_before, ab_calls, outsideAb>>

\* line 978: abChange with undo=True
AcUndo ==
    /\ ab_pc = "undo"
    /\ RunAbChange(TRUE, "metric")
    /\ UNCHANGED <<d, ab_before, outsideAb>>

\* lines 980-997: the metric of the image is computed and returned
AcMetric ==
    /\ ab_pc = "metric"
    /\ ab_pc' = "send"
    /\ UNCHANGED <<d, corrector, defocus, ab_before, ab_calls, ab_error, outsideAb>>

NextAb ==
    \/ AbOnly
    \/ AcApply
    \/ AcAcquire
    \/ AcUndo
    \/ AcMetric

(* ----------------------- client: center_region ------------------------- *)
\* largest ntries a call is made with
MaxTries == 3
\* the tolerance max_distance of the calls, in nm
Tolerances == {50}
\* the offsets registration reports, (x, y) in nm; (30, 40) has magnitude 50
ProbeOffsets == {<<120, 0>>, <<80, 0>>, <<40, 0>>, <<30, 40>>}
CalFactors == {1, 2}

\* lines 767-768: dist = sqrt(x^2 + y^2), `dist > max_distance`; for a
\* tolerance that is not negative this is x^2 + y^2 > max_distance^2
ExceedsTolerance(offset, max_distance) ==
    offset[1] * offset[1] + offset[2] * offset[2] > max_distance * max_distance

\* center_region is not running
CrOff ==
    /\ cr_args = [ntries |-> 0, max_distance |-> 0, image_stage_cal_factor |-> 1]
    /\ ii = 0
    /\ cenetered = FALSE
    /\ cr_offsets = <<>>
    /\ cr_moves = <<>>
    /\ cr_pc = "off"
    /\ cr_error = ""

\* lines 727-760: the call, and `cenetered = False`
CrInit ==
    /\ cr_args \in [ntries : 0..MaxTries, max_distance : Tolerances,
                     image_stage_cal_factor : CalFactors]
    /\ ii = 0
    /\ cenetered = FALSE
    /\ cr_offsets = <<>>
    /\ cr_moves = <<>>
    /\ cr_pc = "loop"
    /\ cr_error = ""

\* a variant of the loop header that runs the body once more
RangeHasNextInclusive == ii <= cr_args.ntries

\* line 761: `for ii in range(ntries)` has a next value; ii counts the
\* iterations started so far
RangeHasNext == ii < cr_args.ntries

\* lines 761-763: the next iteration starts with
\* `curImage, pixelSize = acquire_image(dwell_search, size_search)`.
\* acquire_image raises Exception('Command failed.') when the server did not
\* answer (mcp_library.py line 361), and what it returns is a tuple of seven
\* elements (line 376), which the assignment to two names cannot unpack
\* (ValueError): in this revision the statement always raises.  The outcome
\* "ok" is kept so that the rest of the loop is part of the model.
CrAcquire ==
    /\ cr_pc = "loop"
    /\ RangeHasNext
    /\ ii' = ii + 1
    /\ \E ok \in BOOLEAN :
         IF ok THEN cr_pc' = "registration" /\ UNCHANGED cr_error
               ELSE cr_pc' = "raised" /\ cr_error' = "acquire_image raised"
    /\ UNCHANGED <<cr_args, cenetered, cr_offsets, cr_moves, outsideCr>>

\* lines 765-776: registration gives the offset; beyond the tolerance the
\* stage is to be moved, otherwise cenetered = True and the loop is left
CrRegistration ==
    /\ cr_pc = "registration"
    /\ \E offset \in ProbeOffsets :
         /\ cr_offsets' = Append(cr_offsets, offset)
         /\ IF ExceedsTolerance(offset, cr_args.max_distance)
              THEN cr_pc' = "move" /\ UNCHANGED cenetered
              ELSE cr_pc' = "final" /\ cenetered' = TRUE
    /\ UNCHANGED <<cr_args, ii, cr_moves, cr_error, outsideCr>>

\* lines 771-772: move_stage_delta(dX=offset[0]*cal, dY=offset[1]*cal), sleep
CrMove ==
    /\ cr_pc = "move"
    /\ LET offset == cr_offsets[Len(cr_offsets)]
           cal == cr_args.image_stage_cal_factor
       IN  cr_moves' = Append(cr_moves, <<offset[1] * cal, offset[2] * cal>>)
    /\ cr_pc' = "loop"
    /\ UNCHANGED <<cr_args, ii, cenetered, cr_offsets, cr_error, outsideCr>>

\* line 761: range(ntries) is exhausted
CrExhausted ==
    /\ cr_pc = "loop"
    /\ ii = cr_args.ntries
    /\ cr_pc' = "final"
    /\ UNCHANGED <<cr_args, ii, cenetered, cr_offsets, cr_moves, cr_error, outsideCr>>

\* line 778: `if not centered:`.  The loop assigns cenetered; the name centered
\* is bound nowhere in the function or the module: NameError, whatever the
\* loop did.  Line 782 (the ValueError) is never reached.
CrFinal ==
    /\ cr_pc = "final"
    /\ cr_pc' = "raised"
    /\ cr_error' = "NameError: centered"
    /\ UNCHANGED <<cr_args, ii, cenetered, cr_offsets, cr_moves, outsideCr>>

NextCr ==
    \/ CrAcquire
    \/ CrRegistration
    \/ CrMove
    \/ CrExhausted
    \/ CrFinal

(* ------------------- client: the tools of the Gatan PC ----------------- *)
\* the tools of mcp_library.py that send to the Gatan server
GatanTools == {"move_beam_dm", "acquire_4D_scan"}

\* a call of a tool: its name and its arguments (0 for those it does not have)
ToolCalls ==
    [name : {"move_beam_dm"}, dX : Shifts, dY : Shifts, width : {0}, height : {0}]
    \cup [name : {"acquire_4D_scan"}, dX : {0}, dY : {0}, width : Sizes, height : Sizes]
NoTool == [name |-> None, dX |-> 0, dY |-> 0, width |-> 0, height |-> 0]

\* a message (command, params) given to gatan_client.send_traffic
Traffic(c, p) == [command |-> c, params |-> p]

\* a variant of move_beam_dm that sends the shifts in the order of its arguments
move_beam_dm_in_order(dX, dY) == <<Traffic("move_beam", Pair(dX, dY))>>

\* move_beam_dm(dX, dY), line 946: send_traffic(('move_beam', (dY, dX)))
move_beam_dm(dX, dY) == <<Traffic("move_beam", Pair(dY, dX))>>

\* acquire_4D_scan, lines 973-976: set_gatan, acquire_4dcamera_scan with the
\* params mapping, set_tia (the 0 of set_gatan and set_tia is read by no one)
acquire_4D_scan(width, height) ==
    <<Traffic("set_gatan", NoParams),
      Traffic("acquire_4dcamera_scan",
              [pwidth |-> width, pheight |-> height, p0 |-> 0, p1 |-> 0]),
      Traffic("set_tia", NoParams)>>

\* the messages the tool sends, in order
ToolTraffic(t) ==
    IF t.name = "move_beam_dm" THEN move_beam_dm(t.dX, t.dY)
    ELSE IF t.name = "acquire_4D_scan" THEN acquire_4D_scan(t.width, t.height)
    ELSE <<>>

\* no tool has been called
ToolOff ==
    /\ g_tool = NoTool
    /\ g_tool_pc = "idle"
    /\ g_tool_sent = 0

\* a tool is called while the server waits for a request
ToolCalled ==
    /\ g_tool_pc = "idle"
    /\ g_pc = "recv"
    /\ g_tool' \in ToolCalls
    /\ g_tool_pc' = "running"
    /\ g_tool_sent' = 0
    /\ UNCHANGED <<gatanVars, outsideTool>>

\* Gatan_Client.send_traffic, lines 1080-1081, and lines 48-53 of the server:
\* the tool sends its next message once the reply to the one before has been
\* received, and the server receives it
ToolSend ==
    /\ g_tool_pc = "running"
    /\ g_pc = "recv"
    /\ g_tool_sent < Len(ToolTraffic(g_tool))
    /\ g_tool_sent' = g_tool_sent + 1
    /\ command' = ToolTraffic(g_tool)[g_tool_sent + 1].command
    /\ params' = ToolTraffic(g_tool)[g_tool_sent + 1].params
    /\ message' = NoMessage
    /\ g_requests' = g_requests + 1
    /\ mode_at_recv' = is_gatan
    /\ g_events' = <<>>
    /\ g_pc' = "dispatch"
    /\ UNCHANGED <<SIM, is_gatan, robot, prev_is_gatan, dms, ret, files, scripts,
                   engine, g_replies, g_sent, g_error, established, g_tool, g_tool_pc,
                   outsideTool>>

\* the reply to the last message has been received: the tool returns
ToolReturn ==
    /\ g_tool_pc = "running"
    /\ g_pc = "recv"
    /\ g_tool_sent = Len(ToolTraffic(g_tool))
    /\ g_tool_pc' = "returned"
    /\ UNCHANGED <<g_tool, g_tool_sent, gatanVars, outsideTool>>

\* lines 1083-1085: no reply within RCVTIMEO (the handler is still running, or
\* the server has ended): send_traffic returns None.  The REQ socket then still
\* waits for the reply, so the send of the next message raises zmq.ZMQError,
\* which send_traffic does not catch; after the last message the tool returns.
ToolTimeout ==
    /\ g_tool_pc = "running"
    /\ g_tool_sent > 0
    /\ g_pc # "recv"
    /\ g_tool_pc' = IF g_tool_sent < Len(ToolTraffic(g_tool)) THEN "raised" ELSE "returned"
    /\ UNCHANGED <<g_tool, g_tool_sent, gatanVars, outsideTool>>

NextTool ==
    \/ NextGatan
    \/ ToolCalled
    \/ ToolSend
    \/ ToolReturn
    \/ ToolTimeout

(* ------------------ clients and the server's socket -------------------- *)
\* processes that each own a Microscope_Client or Gatan_Client
NumClients == 2
Clients == 1..NumClients
\* calls of send_traffic one client makes
MaxCalls == 2

Request(c, n) == [client |-> c, n |-> n]
NoRequest == [client |-> 0, n |-> 0]
\* what send_traffic returns: the unpickled reply, or None
Response(req) == [kind |-> "response", req |-> req]
NoneReturned == [kind |-> None, req |-> NoRequest]

\* nothing is connected
NetOff ==
    /\ srv_queue = <<>>
    /\ srv_pc = "off"
    /\ srv_request = NoRequest
    /\ in_progress = {}
    /\ sock = [c \in Clients |-> "ready"]
    /\ cl_inbox = [c \in Clients |-> <<>>]
    /\ cl_pc = [c \in Clients |-> "off"]
    /\ cl_calls = [c \in Clients |-> 0]
    /\ cl_sent = [c \in Clients |-> 0]
    /\ cl_ret = [c \in Clients |-> NoneReturned]
    /\ cl_timed_out = [c \in Clients |-> 0]

\* the server has bound its REP socket, each client has connected a REQ
\* socket (mcp_library.py lines 1009-1020, 1050-1062)
NetInit ==
    /\ srv_queue = <<>>
    /\ srv_pc = "recv"
    /\ srv_request = NoRequest
    /\ in_progress = {}
    /\ sock = [c \in Clients |-> "ready"]
    /\ cl_inbox = [c \in Clients |-> <<>>]
    /\ cl_pc = [c \in Clients |-> "idle"]
    /\ cl_calls = [c \in Clients |-> 0]
    /\ cl_sent = [c \in Clients |-> 0]
    /\ cl_ret = [c \in Clients |-> NoneReturned]
    /\ cl_timed_out = [c \in Clients |-> 0]

\* a variant of the loop that receives while a handler runs
ReceivesWhileBusy == TRUE

\* recv() is called at the top of the `while True` only: gatan_server.py
\* line 48, microscope_server.py line 588
ReceivesWhenFree == srv_pc = "recv"

\* the server's recv() returns the oldest request of the socket
SrvRecv ==
    /\ srv_pc # "dead"
    /\ ReceivesWhenFree
    /\ srv_queue # <<>>
    /\ srv_request' = Head(srv_queue)
    /\ srv_queue' = Tail(srv_queue)
    /\ in_progress' = in_progress \cup {Head(srv_queue)}
    /\ srv_pc' = "handler"
    /\ UNCHANGED <<sock, cl_inbox, cl_pc, cl_calls, cl_sent, cl_ret, cl_timed_out,
                   outsideNet>>

\* the branch of the if/elif chain runs to its end, however long it blocks,
\* or raises out of the loop
SrvHandler ==
    /\ srv_pc = "handler"
    /\ \E ok \in BOOLEAN : srv_pc' = IF ok THEN "send" ELSE "dead"
    /\ UNCHANGED <<srv_queue, srv_request, in_progress, sock, cl_inbox, cl_pc,
                   cl_calls, cl_sent, cl_ret, cl_timed_out, outsideNet>>

\* gatan_server.py line 94, microscope_server.py line 693: the reply goes to
\* the socket of the client whose request was received
SrvSend ==
    /\ srv_pc = "send"
    /\ cl_inbox' = [cl_inbox EXCEPT ![srv_request.client] = Append(@, Response(srv_request))]
    /\ in_progress' = in_progress \ {srv_request}
    /\ srv_pc' = "recv"
    /\ UNCHANGED <<srv_queue, srv_request, sock, cl_pc, cl_calls, cl_sent, cl_ret,
                   cl_timed_out, outsideNet>>

\* send_traffic, line 1038 and 1080: ClientSocket.send.  A REQ socket that
\* has sent a request accepts the next send only after a recv has returned
\* the reply; until then send raises ZMQError (EFSM), which `except
\* zmq.Again` does not catch.  A send that cannot be queued within SNDTIMEO
\* raises zmq.Again and send_traffic returns None.
ClSend(c) ==
    /\ cl_pc[c] = "idle"
    /\ cl_calls[c] < MaxCalls
    /\ cl_calls' = [cl_calls EXCEPT ![c] = @ + 1]
    /\ IF sock[c] = "awaiting reply"
         THEN /\ cl_pc' = [cl_pc EXCEPT ![c] = "raised"]
              /\ UNCHANGED <<srv_queue, sock, cl_sent, cl_ret>>
         ELSE \E queued \in BOOLEAN :
                IF queued
                  THEN /\ srv_queue' = Append(srv_queue, Request(c, cl_calls[c] + 1))
                       /\ sock' = [sock EXCEPT ![c] = "awaiting reply"]
                       /\ cl_sent' = [cl_sent EXCEPT ![c] = @ + 1]
                       /\ cl_pc' = [cl_pc EXCEPT ![c] = "recv"]
                       /\ UNCHANGED cl_ret
                  ELSE /\ cl_ret' = [cl_ret EXCEPT ![c] = NoneReturned]
                       /\ UNCHANGED <<srv_queue, sock, cl_sent, cl_pc>>
    /\ UNCHANGED <<srv_pc, srv_request, in_progress, cl_inbox, cl_timed_out, outsideNet>>

\* line 1039 and 1081: recv returns the reply that arrived, send_traffic
\* returns it
ClRecv(c) ==
    /\ cl_pc[c] = "recv"
    /\ cl_inbox[c] # <<>>
    /\ cl_ret' = [cl_ret EXCEPT ![c] = Head(cl_inbox[c])]
    /\ cl_inbox' = [cl_inbox EXCEPT ![c] = Tail(@)]
    /\ sock' = [sock EXCEPT ![c] = "ready"]
    /\ cl_pc' = [cl_pc EXCEPT ![c] = "idle"]
    /\ UNCHANGED <<srv_queue, srv_pc, srv_request, in_progress, cl_calls, cl_sent,
                   cl_timed_out, outsideNet>>

\* lines 1042-1044 and 1083-1085: no reply within RCVTIMEO, recv raises
\* zmq.Again, send_traffic returns None; the socket is left as it is
ClTimeout(c) ==
    /\ cl_pc[c] = "recv"
    /\ cl_inbox[c] = <<>>
    /\ cl_ret' = [cl_ret EXCEPT ![c] = NoneReturned]
    /\ cl_timed_out' = [cl_timed_out EXCEPT ![c] = IF @ = 0 THEN cl_calls[c] ELSE @]
    /\ cl_pc' = [cl_pc EXCEPT ![c] = "idle"]
    /\ UNCHANGED <<srv_queue, srv_pc, srv_request, in_progress, sock, cl_inbox,
                   cl_calls, cl_sent, outsideNet>>

NextNet ==
    \/ SrvRecv
    \/ SrvHandler
    \/ SrvSend
    \/ \E c \in Clients : ClSend(c)
    \/ \E c \in Clients : ClRecv(c)
    \/ \E c \in Clients : ClTimeout(c)

(* ------------------------ client: registration ------------------------- *)
\* largest side of the square images
MaxSide == 3
\* largest number of bright pixels of an image
MaxBright == 1
PixelSizes == {1, 3}

\* pixel (r, c) of an N x N image, rows and columns counted from 0
Cells(N) == (0..(N - 1)) \X (0..(N - 1))
\* an image is dark (0) but for its bright pixels (1); no bright pixel is a
\* constant image
RegImage(N, bright) == [side |-> N, bright |-> bright]
RegImages(N) ==
    {RegImage(N, b) : b \in {x \in SUBSET Cells(N) : Cardinality(x) <= MaxBright}}
Pixel(im, r, c) == IF <<r, c>> \in im.bright THEN 1 ELSE 0
\* the image moved by sh, with wrap-around
Moved(im, sh) ==
    RegImage(im.side, {<<(x[1] + sh[1]) % im.side, (x[2] + sh[2]) % im.side>> :
                          x \in im.bright})

\* image - image.mean() (line 607), multiplied by the number of pixels so
\* that it stays an integer; the factor does not move the maximum.  sum is
\* the sum of the pixels of the image.
MeanSubtracted(im, sum, r, c) == im.side * im.side * Pixel(im, r, c) - sum

RECURSIVE CorrSum(_, _, _, _, _, _, _)
\* sum over the pixels 0..n, in row-major order, of im0[pixel + k] * im1[pixel]
CorrSum(im0, sum0, im1, sum1, k1, k2, n) ==
    LET N == im0.side
        r == n \div N
        c == n % N
        term == MeanSubtracted(im0, sum0, (r + k1) % N, (c + k2) % N)
                    * MeanSubtracted(im1, sum1, r, c)
    IN  IF n = 0 THEN term ELSE CorrSum(im0, sum0, im1, sum1, k1, k2, n - 1) + term

\* cross_correlate, lines 556-581, for two images of the same shape (the
\* padding of lines 574-577 then copies im1): ifft2(fft2(im0) * conj(fft2(im1)))
\* is the circular correlation c[k] = sum over n of im0[n + k] * im1[n], and
\* fftshift puts c[k] at index (k + N // 2) mod N.  The function is given
\* over the row-major index i * N + j.
cross_correlate(im0, im1) ==
    LET N == im0.side
        sum0 == Cardinality(im0.bright)
        sum1 == Cardinality(im1.bright)
    IN  [idx \in 0..(N * N - 1) |->
            CorrSum(im0, sum0, im1, sum1, ((idx \div N) + N - (N \div 2)) % N,
                    ((idx % N) + N - (N \div 2)) % N, N * N - 1)]

RECURSIVE FirstMax(_, _, _, _, _)
\* the scan of np.argmax from index n on: best is the index of the largest
\* value so far, replaced only by a value that is strictly larger
FirstMax(corr, last, n, best, bestValue) ==
    IF n > last THEN best
    ELSE LET v == corr[n]
         IN  IF v > bestValue THEN FirstMax(corr, last, n + 1, n, v)
                              ELSE FirstMax(corr, last, n + 1, best, bestValue)

\* np.argmax, line 608: the first index, in row-major order, of the maximum
ArgMax(corr, last) == FirstMax(corr, last, 1, 0, corr[0])

\* a variant that returns the offset in pixels
InPixels(offset, pixelSize) == offset

\* line 610: offset_xy = offset * pixelSize
offset_xy(offset, pixelSize) == <<offset[1] * pixelSize, offset[2] * pixelSize>>

\* registration, lines 584-611.  offset = corr_arg - shape / 2 (line 609) is
\* a multiple of one half, so offsets are given in halves: 2 * corr_arg - N.
registration(refImage_, curImage, pixelSize) ==
    LET N == refImage_.side
        corr == cross_correlate(curImage, refImage_)
        idx == ArgMax(corr, N * N - 1)
        offset == <<2 * (idx \div N) - N, 2 * (idx % N) - N>>
    IN  offset_xy(offset, pixelSize)

\* registration is not running
RegOff ==
    /\ reg_in = [ref |-> RegImage(1, {}), shift |-> <<0, 0>>, pixelSize |-> 1]
    /\ reg_out = <<>>

\* a reference image, a current image that is the reference moved by some
\* shift (by nothing: the same image), a pixel calibration
RegInit ==
    /\ reg_in \in UNION {[ref : RegImages(N), shift : Cells(N), pixelSize : PixelSizes] :
                            N \in 2..MaxSide}
    /\ reg_out = <<>>

\* registration(refImage, curImage, pixelSize)
RegCall ==
    /\ reg_out = <<>>
    /\ reg_out' = <<registration(reg_in.ref, Moved(reg_in.ref, reg_in.shift),
                                 reg_in.pixelSize)>>
    /\ UNCHANGED <<reg_in, outsideReg>>

\* registration of the same two images with twice the pixel calibration
RegCallDoubled ==
    /\ Len(reg_out) = 1
    /\ reg_out' = Append(reg_out, registration(reg_in.ref, Moved(reg_in.ref, reg_in.shift),
                                               2 * reg_in.pixelSize))
    /\ UNCHANGED <<reg_in, outsideReg>>

NextReg ==
    \/ RegCall
    \/ RegCallDoubled

(* ----------------------- client: focus_stem_image ---------------------- *)
\* largest number of samples the optimizer asks for (num_seed_values + num_samples)
MaxSamples == 2

\* range_dict has the one key 'C1' (line 659); values are in nanometres, the
\* unit of the deltas of the model, so that mm[i] * 1e-9 metres (line 694) is
\* mm[i] of them
FocusValues(v) == <<Entry("C1", v)>>
FocusSelect == [k \in {"C1"} |-> None]
Logged(phase, calls) == [i \in 1..Len(calls) |-> [phase |-> phase, call |-> calls[i]]]

\* focus_stem_image is not running
AfOff ==
    /\ af_pc = "off"
    /\ af_runs = 0
    /\ model_max = 0
    /\ af_ins = Instrument([n \in CorrectorNames |-> <<0, 0>>], 0)
    /\ af_log = <<>>

\* lines 659-672: focus_stem_image is about to call ae_main
AfInit ==
    /\ af_pc = "ae_main"
    /\ af_runs \in 1..MaxSamples
    /\ model_max = 0
    /\ af_ins = Instrument([n \in CorrectorNames |-> <<0, 0>>], 0)
    /\ af_log = <<>>

\* ae_main (lines 674-688) scores one focus value: an 'ac' request with
\* C1_defocus_flag=True and bscomp=False, which the server handles by
\* apply, acquire, undo (microscope_server.py lines 976-978); the
\* acquisition may raise, and then the undo does not run
AfSample ==
    /\ af_pc = "ae_main"
    /\ af_runs > 0
    /\ \E v \in Deltas, ok \in BOOLEAN :
         LET apply == abChange(FocusValues(v), FocusSelect, TRUE, FALSE, FALSE)
             undo == abChange(FocusValues(v), FocusSelect, TRUE, TRUE, FALSE)
             calls == IF ok THEN apply \o undo ELSE apply
         IN  /\ af_ins' = AfterCalls(af_ins, calls, Len(calls))
             /\ af_log' = af_log \o Logged("sample", calls)
             /\ af_pc' = IF ok THEN af_pc ELSE "dead"
    /\ af_runs' = af_runs - 1
    /\ UNCHANGED <<model_max, outsideAf>>

\* lines 690-694: ae_main has returned, the best estimate is read
AfModelMax ==
    /\ af_pc = "ae_main"
    /\ af_runs = 0
    /\ model_max' \in Deltas
    /\ af_pc' = "ab_only"
    /\ UNCHANGED <<af_runs, af_ins, af_log, outsideAf>>

\* line 696: beacon_client.ab_only(ab_values) sends an 'ab_only' request,
\* with whatever flags it defaults to; the server runs abChange once
\* (microscope_server.py line 607); a call may raise
AfAbOnly ==
    /\ af_pc = "ab_only"
    /\ \E flag \in BOOLEAN, bs \in BOOLEAN :
         LET calls == abChange(FocusValues(model_max), FocusSelect, flag, AbOnlyUndo, bs)
         IN  \E k \in 0..Len(calls) :
               /\ af_ins' = AfterCalls(af_ins, calls, k)
               /\ af_log' = af_log \o Logged("best", SubSeq(calls, 1, k))
               /\ af_pc' = IF k = Len(calls) THEN "finished" ELSE "dead"
    /\ UNCHANGED <<af_runs, model_max, outsideAf>>

NextAf ==
    \/ AfSample
    \/ AfModelMax
    \/ AfAbOnly

(* ------------- microscope server: commands on the instrument ----------- *)
\* requests the server receives in one run of this part of the model
MaxCommands == 3

\* the read-only branches, lines 621-638 and 671-682
GetterInstructions ==
    {"get_voltage", "get_mag", "get_stage_pos", "get_defocus", "get_camera_length",
     "get_camera_length_index", "get_stem_rotation", "get_convergence_angle",
     "get_condenser_stigmator"}
\* branches that assign one property of the microscope from one key of self.d
SetterKey(i) ==
    CASE i = "set_mag" -> "mag"
      [] i = "set_defocus" -> "target_df"
      [] i = "set_stem_rotation" -> "stem_rotation"
      [] OTHER -> None
SetterInstructions == {"set_mag", "set_defocus", "set_stem_rotation"}
ValveInstructions == {"open_column_valve", "close_column_valve"}
BlankerInstructions == {"blank_beam", "unblank_beam"}

\* (dX, dY, dZ, dA, dB) of a move_stage request, (WD_x, WD_y) of a c1a1
\* request, the value of a setter
ZeroDelta == <<0, 0, 0, 0, 0>>
StageDeltas == {<<1, -2, 3, -1, 2>>, <<-1, 2, -3, 1, -2>>, <<0, 1, 0, 0, 0>>}
NoTilt == <<0, 0>>
Tilts == {<<1, -2>>}
SetValues == {0, 1}
Negated(v) == [i \in DOMAIN v |-> -v[i]]
Plus(v, w) == [i \in DOMAIN v |-> v[i] + w[i]]

TemRequest(type, delta, tilt, key, val) ==
    [type |-> type, delta |-> delta, tilt |-> tilt, key |-> key, val |-> val]
Plain(type) == TemRequest(type, ZeroDelta, NoTilt, None, 0)
\* the requests of the tools get_stem_rotation_angle and
\* set_stem_rotation_angle, mcp_library.py lines 867 and 885
get_stem_rotation_angle == Plain("get_stem_rotation_angle")
set_stem_rotation_angle(rotation_angle) ==
    TemRequest("set_stem_rotation_angle", ZeroDelta, NoTilt, "stem_rotation_angle",
               rotation_angle)

\* the requests the model sends: every getter, the commands that change the
\* instrument, the requests of the rotation tools, and a tag the chain does
\* not name
TemRequests ==
    {get_stem_rotation_angle} \cup {set_stem_rotation_angle(v) : v \in SetValues} \cup
    {Plain(i) : i \in GetterInstructions \cup ValveInstructions \cup BlankerInstructions
                        \cup ImagingInstructions \cup {UnknownCommand}}
    \cup {TemRequest("move_stage", dl, NoTilt, None, 0) : dl \in StageDeltas}
    \cup {TemRequest("c1a1", ZeroDelta, tl, None, 0) : tl \in Tilts}
    \cup {TemRequest(i, ZeroDelta, NoTilt, SetterKey(i), v) :
             i \in SetterInstructions, v \in SetValues}

\* reply_d, lines 690-691; data is the tuple of numbers the handler returned,
\* empty for None
TemReply(rm, rd) == [reply_message |-> rm, reply_data |-> rd]

Microscope(stage, df, mag, rot, blanked, valve) ==
    [stage |-> stage, defocus |-> df, mag |-> mag, rotation |-> rot,
     BeamBlanked |-> blanked, ColumnValvesOpen |-> valve]
AtRecv == [tem |-> tem, wd |-> t_wd, ref |-> t_ref]
\* a completed stage command: its deltas, the position before it, the number
\* of its request, and the same of the stage command before it
StageMove(dl, before, n, prev) ==
    [delta |-> dl, before |-> before, request |-> n,
     prev_delta |-> prev.delta, prev_before |-> prev.before, prev_request |-> prev.request]
NoMove ==
    [delta |-> ZeroDelta, before |-> ZeroDelta, request |-> 0,
     prev_delta |-> ZeroDelta, prev_before |-> ZeroDelta, prev_request |-> 0]

\* this part of the server is not running
TemOff ==
    /\ t_pc = "off"
    /\ t_d = Plain(None)
    /\ tem = Microscope(ZeroDelta, 0, 0, 0, TRUE, TRUE)
    /\ t_wd = NoTilt
    /\ t_ref = 0
    /\ t_log = <<>>
    /\ t_at_recv = AtRecv
    /\ t_last_move = NoMove
    /\ t_reply = TemReply(None, <<>>)
    /\ t_requests = 0

\* lines 555-586: the server is in its loop, self.refImage is None; the beam
\* blanker is in whatever position the operator left it
TemInit ==
    /\ t_pc = "recv"
    /\ t_d = Plain(None)
    /\ \E b \in BOOLEAN : tem = Microscope(ZeroDelta, 0, 0, 0, b, TRUE)
    /\ t_wd = NoTilt
    /\ t_ref = 0
    /\ t_log = <<>>
    /\ t_at_recv = AtRecv
    /\ t_last_move = NoMove
    /\ t_reply = TemReply(None, <<>>)
    /\ t_requests = 0

\* an exception leaves the loop: the reply is never built
TemRaises == t_pc' = "dead"

\* lines 588-591
TemRecv ==
    /\ t_pc = "recv"
    /\ t_requests < MaxCommands
    /\ t_d' \in TemRequests
    /\ t_requests' = t_requests + 1
    /\ t_at_recv' = AtRecv
    /\ t_log' = <<>>
    /\ t_pc' = "dispatch"
    /\ UNCHANGED <<tem, t_wd, t_ref, t_last_move, t_reply, outsideTem>>

\* what each getter of TIA_control returns (lines 225-288, 347-393, 543-547);
\* voltage and camera length are properties no command of the model changes
GetterValue(i) ==
    CASE i = "get_mag" -> <<tem.mag>>
      [] i = "get_stage_pos" -> tem.stage
      [] i = "get_defocus" -> <<tem.defocus>>
      [] i = "get_stem_rotation" -> <<tem.rotation>>
      [] OTHER -> <<0>>

\* lines 621-638 and 680-682: a getter whose method exists reads a property
TemGetter ==
    /\ t_pc = "dispatch"
    /\ t_d.type \in GetterInstructions \ MissingMethodInstructions
    /\ t_reply' = TemReply(ReplyMessageOf(t_d.type), GetterValue(t_d.type))
    /\ t_pc' = "send"
    /\ UNCHANGED <<t_d, tem, t_wd, t_ref, t_log, t_at_recv, t_last_move, t_requests,
                   outsideTem>>

\* lines 671-679: self.microscope has no get_condenser_stigmator and no
\* get_convergence_angle (lines 267, 357, 370): AttributeError
TemMissingMethod ==
    /\ t_pc = "dispatch"
    /\ t_d.type \in MissingMethodInstructions
    /\ TemRaises
    /\ UNCHANGED <<t_d, tem, t_wd, t_ref, t_log, t_at_recv, t_last_move, t_reply,
                   t_requests, outsideTem>>

\* a variant that goes to the deltas as if they were coordinates
MovedTo(pos, dl) == dl

\* lines 304-309: stageObj.X += float(dX), and so on
MovedBy(pos, dl) == Plus(pos, dl)

\* line 310: Stage.GoTo(stageObj, 15) moves the axes X, Y, Z and A; the bit
\* of B is not set
GoTo(pos, target) == [i \in 1..5 |-> IF i <= 4 THEN target[i] ELSE pos[i]]

\* lines 615-617 and 291-311: the stage moves or GoTo raises
TemMoveStage ==
    /\ t_pc = "dispatch"
    /\ t_d.type = "move_stage"
    /\ \E ok \in BOOLEAN :
         IF ok
           THEN /\ tem' = [tem EXCEPT !.stage = GoTo(@, MovedBy(@, t_d.delta))]
                /\ t_log' = Append(t_log, "GoTo")
                /\ t_last_move' = StageMove(t_d.delta, tem.stage, t_requests, t_last_move)
                /\ t_reply' = TemReply(ReplyMessageOf(t_d.type), <<>>)
                /\ t_pc' = "send"
           ELSE /\ TemRaises
                /\ UNCHANGED <<tem, t_log, t_last_move, t_reply>>
    /\ UNCHANGED <<t_d, t_wd, t_ref, t_at_recv, t_requests, outsideTem>>

\* lines 639-647 and 683-685: the value of the branch's key is assigned to
\* the property; a request without the key raises KeyError
TemSetter ==
    /\ t_pc = "dispatch"
    /\ t_d.type \in SetterInstructions
    /\ IF t_d.key = SetterKey(t_d.type)
         THEN /\ tem' = CASE t_d.type = "set_mag" -> [tem EXCEPT !.mag = t_d.val]
                          [] t_d.type = "set_defocus" -> [tem EXCEPT !.defocus = t_d.val]
                          [] OTHER -> [tem EXCEPT !.rotation = t_d.val]
              /\ t_log' = Append(t_log, t_d.type)
              /\ t_reply' = TemReply(ReplyMessageOf(t_d.type), <<>>)
              /\ t_pc' = "send"
         ELSE /\ TemRaises
              /\ UNCHANGED <<tem, t_log, t_reply>>
    /\ UNCHANGED <<t_d, t_wd, t_ref, t_at_recv, t_last_move, t_requests, outsideTem>>

\* lines 648-669: the column valves and the beam blanker
TemSwitch ==
    /\ t_pc = "dispatch"
    /\ t_d.type \in ValveInstructions \cup BlankerInstructions
    /\ tem' = CASE t_d.type = "open_column_valve" -> [tem EXCEPT !.ColumnValvesOpen = TRUE]
                [] t_d.type = "close_column_valve" -> [tem EXCEPT !.ColumnValvesOpen = FALSE]
                [] t_d.type = "blank_beam" -> [tem EXCEPT !.BeamBlanked = TRUE]
                [] OTHER -> [tem EXCEPT !.BeamBlanked = FALSE]
    /\ t_log' = Append(t_log, t_d.type)
    /\ t_reply' = TemReply(ReplyMessageOf(t_d.type), <<>>)
    /\ t_pc' = "send"
    /\ UNCHANGED <<t_d, t_wd, t_ref, t_at_recv, t_last_move, t_requests, outsideTem>>

\* microscope_acquire_image up to its busy wait, lines 424-481: the scan is
\* set up, the beam is unblanked (line 479), the acquisition is started
\* (line 480); a COM call of the set-up or Start may raise
TemAcquireStart ==
    /\ t_pc = "dispatch"
    /\ t_d.type \in ImagingInstructions
    /\ \E outcome \in {"set-up raised", "Start raised", "started"} :
         /\ tem' = IF outcome = "set-up raised" THEN tem
                                                ELSE [tem EXCEPT !.BeamBlanked = FALSE]
         /\ t_log' = t_log \o (CASE outcome = "set-up raised" -> <<>>
                                  [] outcome = "Start raised" -> <<"unblank">>
                                  [] OTHER -> <<"unblank", "Start">>)
         /\ IF outcome = "started" THEN t_pc' = "acquiring" ELSE TemRaises
    /\ UNCHANGED <<t_d, t_wd, t_ref, t_at_recv, t_last_move, t_reply, t_requests,
                   outsideTem>>

\* a variant that leaves the beam on the specimen after the acquisition
StillUnblanked == FALSE

\* line 483: self.blank() sets Ill.BeamBlanked = True
BlankedAfterAcquisition == TRUE

\* lines 481-490 and 608-614: the acquisition has finished, the beam is
\* blanked (line 483), the image is read and returned, or reading it raises;
\* 'ref' keeps the image in self.refImage
TemAcquireEnd ==
    /\ t_pc = "acquiring"
    /\ tem' = [tem EXCEPT !.BeamBlanked = BlankedAfterAcquisition]
    /\ t_log' = Append(t_log, "blank")
    /\ \E ok \in BOOLEAN :
         IF ok
           THEN /\ t_ref' = IF t_d.type = "ref" THEN t_requests ELSE t_ref
                /\ t_reply' = TemReply(ReplyMessageOf(t_d.type), <<t_requests>>)
                /\ t_pc' = "send"
           ELSE /\ TemRaises
                /\ UNCHANGED <<t_ref, t_reply>>
    /\ UNCHANGED <<t_d, t_wd, t_at_recv, t_last_move, t_requests, outsideTem>>

\* c1a1_measurement up to the measurement, lines 1019-1024: the tilt is
\* applied, the beam is unblanked, the corrector measures; the call that
\* tilts or the measurement may raise
TemC1A1Start ==
    /\ t_pc = "dispatch"
    /\ t_d.type = "c1a1"
    /\ \E outcome \in {"tilt raised", "measurement raised", "measured"} :
         /\ t_wd' = IF outcome = "tilt raised" THEN t_wd ELSE Plus(t_wd, t_d.tilt)
         /\ tem' = IF outcome = "tilt raised" THEN tem
                                              ELSE [tem EXCEPT !.BeamBlanked = FALSE]
         /\ t_log' = t_log \o (CASE outcome = "tilt raised" -> <<>>
                                  [] outcome = "measurement raised" -> <<"tilt", "unblank">>
                                  [] OTHER -> <<"tilt", "unblank", "measureC1A1">>)
         /\ IF outcome = "measured" THEN t_pc' = "measured" ELSE TemRaises
    /\ UNCHANGED <<t_d, t_ref, t_at_recv, t_last_move, t_reply, t_requests, outsideTem>>

\* a variant that sends the same tilt again
TiltAgain(tl) == tl

\* line 1027: value=[-ab_values['WD_x'], -ab_values['WD_y']]
TiltBack(tl) == Negated(tl)

\* lines 1025-1032: the beam is blanked, the negated tilt is sent to the
\* corrector, the measurement is decoded; the last two may raise
TemC1A1End ==
    /\ t_pc = "measured"
    /\ tem' = [tem EXCEPT !.BeamBlanked = TRUE]
    /\ \E outcome \in {"tilt raised", "decoding raised", "returned"} :
         /\ t_wd' = IF outcome = "tilt raised" THEN t_wd
                                               ELSE Plus(t_wd, TiltBack(t_d.tilt))
         /\ t_log' = t_log \o (IF outcome = "tilt raised" THEN <<"blank">>
                                                           ELSE <<"blank", "tilt back">>)
         /\ IF outcome = "returned"
              THEN /\ t_reply' = TemReply(ReplyMessageOf(t_d.type), <<t_requests>>)
                   /\ t_pc' = "send"
              ELSE /\ TemRaises
                   /\ UNCHANGED t_reply
    /\ UNCHANGED <<t_d, t_ref, t_at_recv, t_last_move, t_requests, outsideTem>>

\* lines 686-688: no branch names the tag
TemUnknown ==
    /\ t_pc = "dispatch"
    /\ t_d.type \notin MicInstructions
    /\ t_reply' = TemReply(None, <<>>)
    /\ t_pc' = "send"
    /\ UNCHANGED <<t_d, tem, t_wd, t_ref, t_log, t_at_recv, t_last_move, t_requests,
                   outsideTem>>

\* lines 690-693: reply_d is sent, back to recv
TemSend ==
    /\ t_pc = "send"
    /\ t_pc' = "recv"
    /\ UNCHANGED <<t_d, tem, t_wd, t_ref, t_log, t_at_recv, t_last_move, t_reply,
                   t_requests, outsideTem>>

NextTem ==
    \/ TemRecv
    \/ TemGetter
    \/ TemMissingMethod
    \/ TemMoveStage
    \/ TemSetter
    \/ TemSwitch
    \/ TemAcquireStart
    \/ TemAcquireEnd
    \/ TemC1A1Start
    \/ TemC1A1End
    \/ TemUnknown
    \/ TemSend

(* -------------------- data tools: data held in memory ------------------ *)
\* file_ids load_image returns in one run of the model
MaxFiles == 3
Files == {"image.dm4", "image.emd"}
FileIds == 1..MaxFiles

\* a tool call, its argument, and what it returned: a set of file_ids, or
\* an exception
ToolCall(tool, arg, ids, raised) ==
    [tool |-> tool, arg |-> arg, ids |-> ids, raised |-> raised]
\* a dictionary with one more key
WithKey(dict, k, v) == [i \in DOMAIN dict \cup {k} |-> IF i = k THEN v ELSE dict[i]]

\* lines 26-27: data = {} and metadata = {} at module level.  Nothing is
\* running in the other specifications; the state is the same.
NcOff ==
    /\ data = <<>>
    /\ metadata = <<>>
    /\ file_ids = 0
    /\ freed = {}
    /\ nc_ret = ToolCall(None, 0, {}, FALSE)

\* lines 77-107: the file is read, then a new file_id becomes a key of both
\* dictionaries; when reading raises nothing is stored
load_image ==
    /\ file_ids < MaxFiles
    /\ \E f \in Files, ok \in BOOLEAN :
         IF ok
           THEN /\ file_ids' = file_ids + 1
                /\ data' = WithKey(data, file_ids + 1, f)
                /\ metadata' = WithKey(metadata, file_ids + 1, f)
                /\ nc_ret' = ToolCall("load_image", 0, {file_ids + 1}, FALSE)
           ELSE /\ nc_ret' = ToolCall("load_image", 0, {}, TRUE)
                /\ UNCHANGED <<data, metadata, file_ids>>
    /\ UNCHANGED <<freed, outsideNc>>

\* lines 216-224: the keys of data
get_loaded_data ==
    /\ nc_ret' = ToolCall("get_loaded_data", 0, DOMAIN data, FALSE)
    /\ UNCHANGED <<data, metadata, file_ids, freed, outsideNc>>

\* lines 124-141: metadata[file_id], KeyError for a key that is not there
retrieve_metadata ==
    /\ \E file_id \in FileIds :
         nc_ret' = IF file_id \in DOMAIN metadata
                      THEN ToolCall("retrieve_metadata", file_id, {file_id}, FALSE)
                      ELSE ToolCall("retrieve_metadata", file_id, {}, TRUE)
    /\ UNCHANGED <<data, metadata, file_ids, freed, outsideNc>>

\* lines 162-182: data[file_id], KeyError for a key that is not there
calculate_image_statistics ==
    /\ \E file_id \in FileIds :
         nc_ret' = IF file_id \in DOMAIN data
                      THEN ToolCall("calculate_image_statistics", file_id, {file_id}, FALSE)
                      ELSE ToolCall("calculate_image_statistics", file_id, {}, TRUE)
    /\ UNCHANGED <<data, metadata, file_ids, freed, outsideNc>>

\* lines 298-302: `data = {}` and `metadata = {}` inside the function, without
\* a global statement, bind two locals that die with the call
delete_data_in_memory ==
    /\ LET local_data == <<>>
           local_metadata == <<>>
       IN  /\ data' = data
           /\ metadata' = metadata
    /\ freed' = 1..file_ids
    /\ nc_ret' = ToolCall("delete_data_in_memory", 0, {}, FALSE)
    /\ UNCHANGED <<file_ids, outsideNc>>

NextNc ==
    \/ load_image
    \/ get_loaded_data
    \/ retrieve_metadata
    \/ calculate_image_statistics
    \/ delete_data_in_memory

(* --------------------------- specification ----------------------------- *)
\* a Gatan server that is started outside simulation with no artifact on disk
GatanOff ==
    /\ GatanInit
    /\ ~SIM
    /\ files = [f \in ArtifactPaths |-> Absent]

Init == GatanInit /\ MicInit /\ AbOff /\ CrOff /\ NetOff /\ RegOff /\ AfOff /\ TemOff /\ NcOff /\ ToolOff

Next == NextGatan \/ NextMic

\* both servers, each in its own process
Spec == Init /\ [][Next]_vars

\* the Gatan server and DigitalMicrograph alone
GatanSpec == Init /\ [][NextGatan]_vars

\* the Gatan server and a client that calls one of the tools of the Gatan PC
ToolSpec == Init /\ [][NextTool]_vars

\* the microscope server alone
MicSpecInit == GatanOff /\ MicInit /\ AbOff /\ CrOff /\ NetOff /\ RegOff /\ AfOff /\ TemOff /\ NcOff /\ ToolOff
MicSpec == MicSpecInit /\ [][NextMic]_vars

\* the handlers 'ac' and 'ab_only' of the microscope server, for every request
AbSpecInit == GatanOff /\ MicInit /\ AbInit /\ CrOff /\ NetOff /\ RegOff /\ AfOff /\ TemOff /\ NcOff /\ ToolOff
AbSpec == AbSpecInit /\ [][NextAb]_vars

\* the client function center_region, for every argument and every offset
CrSpecInit == GatanOff /\ MicInit /\ AbOff /\ CrInit /\ NetOff /\ RegOff /\ AfOff /\ TemOff /\ NcOff /\ ToolOff
CrSpec == CrSpecInit /\ [][NextCr]_vars
\* center_region as a sequential function: a step that can be taken is taken
CrLiveSpec == CrSpecInit /\ [][NextCr]_vars /\ WF_vars(NextCr)

\* the client function registration, for every pair of images
RegSpecInit == GatanOff /\ MicInit /\ AbOff /\ CrOff /\ NetOff /\ RegInit /\ AfOff /\ TemOff /\ NcOff /\ ToolOff
RegSpec == RegSpecInit /\ [][NextReg]_vars

\* the tool focus_stem_image against the server
AfSpecInit == GatanOff /\ MicInit /\ AbOff /\ CrOff /\ NetOff /\ RegOff /\ AfInit /\ TemOff /\ NcOff /\ ToolOff
AfSpec == AfSpecInit /\ [][NextAf]_vars

\* the microscope server and the commands on the instrument
TemSpecInit == GatanOff /\ MicInit /\ AbOff /\ CrOff /\ NetOff /\ RegOff /\ AfOff /\ TemInit /\ NcOff /\ ToolOff
TemSpec == TemSpecInit /\ [][NextTem]_vars

\* the data tools
NcSpecInit == GatanOff /\ MicInit /\ AbOff /\ CrOff /\ NetOff /\ RegOff /\ AfOff /\ TemOff /\ NcOff /\ ToolOff
NcSpec == NcSpecInit /\ [][NextNc]_vars

\* one server loop and the clients that send to it
NetSpecInit == GatanOff /\ MicInit /\ AbOff /\ CrOff /\ NetInit /\ RegOff /\ AfOff /\ TemOff /\ NcOff /\ ToolOff
NetSpec == NetSpecInit /\ [][NextNet]_vars

(* ------------------------------ claims --------------------------------- *)
\* the request being processed has ended: its reply is built, or the server died
GatanEnded == g_pc \in {"send", "dead"}

ModeEvents == {"set_is_gatan(True)", "set_is_gatan(False)"}
RobotEvents == {"set_Gatan", "set_TIA2"}
IsModeEvent(e) == e \in ModeEvents
IsRobotEvent(e) == e \in RobotEvents
IsBracketEvent(e) == e \in ModeEvents \cup {"parse"}
Occurs(e) == \E i \in 1..Len(g_events) : g_events[i] = e

\* C1: when an acquisition command has ended, with success or with a failure,
\* the tracked mode equals the mode at the moment the command was received.
C1_ModeRestoredAfterAcquisition ==
    (command \in AcquireCommands /\ GatanEnded) => is_gatan = mode_at_recv

\* C2: a handler that raises does not end the server: neither dispatcher ever
\* leaves its receive loop.
C2_ServerSurvivesHandlerFailure ==
    g_pc # "dead" /\ m_pc # "dead"

\* C3: requests and replies alternate: whenever a dispatcher is not processing
\* a request (it waits in recv, or it has stopped), it has sent exactly one
\* reply for every request it received.
C3_OneReplyPerRequest ==
    /\ g_pc \in {"recv", "dead"} => g_replies = g_requests
    /\ m_pc \in {"recv", "dead"} => m_replies = m_requests

\* response.get('error') of the test client: the error field of a reply, None
\* when the reply has no such key
ReplyError(r) == IF "error" \in DOMAIN r THEN r.error ELSE None

\* C4: a request with an unknown tag is answered, and the reply's error field
\* is set; the server stays in its loop.
C4_UnknownCommandGetsErrorReply ==
    /\ command = UnknownCommand => g_pc # "dead"
    /\ (instruction = UnknownCommand /\ m_pc = "recv") =>
           /\ m_replies = m_requests
           /\ ReplyError(m_sent) # None

\* the parts of the non-staleness property, for the acquisition in progress
NothingAtOutputPathWhenInvoked == g_pc = "invoke" => ~files[dm4_filename].exists

ParseFollowsExistenceCheck ==
    \A i \in 1..Len(g_events) :
        g_events[i] = "parse" =>
            /\ i >= 3
            /\ g_events[i - 1] = "exists"
            /\ g_events[i - 2] = "invoke"

ReturnedDataIsOfThisInvocation ==
    /\ (command \in AcquireCommands /\ g_pc \in {"restore", "send"}) =>
           ret = Artifact(g_requests)
    /\ message.tag = "gatan_data" => message.value = Artifact(g_requests)

C6_TwoHandOffsBracketAcquisition ==
    (command \in AcquireCommands /\ ~mode_at_recv /\ GatanEnded
        /\ g_error # HandOffError(TRUE)) =>
        SelectSeq(g_events, IsBracketEvent) =
            <<"set_is_gatan(True)", "parse", "set_is_gatan(False)">>

\* C7: during and after an acquisition requested in Scripted mode the mode
\* stays Scripted and set_is_gatan is never called, so no robot call is made.
C7_NoHandOffWhenAlreadyScripted ==
    (command \in AcquireCommands /\ mode_at_recv) =>
        /\ is_gatan
        /\ SelectSeq(g_events, IsModeEvent) = <<>>
        /\ SelectSeq(g_events, IsRobotEvent) = <<>>

\* an acquisition requested in Scripted mode has run to its reply
C7_Witness ==
    /\ command \in AcquireCommands
    /\ mode_at_recv
    /\ g_pc = "send"
    /\ Occurs("parse")

\* C8: set_gatan in Gatan mode and set_tia in TIA mode make no robot call,
\* leave the mode unchanged and reply with the current mode.
C8_SwitchToActiveModeIsNoOp ==
    (command \in {"set_gatan", "set_tia"} /\ mode_at_recv = (command = "set_gatan")
        /\ GatanEnded) =>
        /\ SelectSeq(g_events, IsRobotEvent) = <<>>
        /\ is_gatan = mode_at_recv
        /\ g_pc = "send"
        /\ message.tag = "is_gatan"
        /\ message.value = mode_at_recv

\* C9: when the hand-off into Gatan mode fails at the start of an acquisition
\* command, nothing of the acquisition runs (no render, no script write, no
\* engine call, no parse), the tracked mode and the robot position keep their
\* values, and no hand-off back is attempted.
C9_FailedSwitchInAborts ==
    (command \in AcquireCommands /\ g_error = HandOffError(TRUE)) =>
        /\ g_pc = "dead"
        /\ is_gatan = mode_at_recv
        /\ robot = FALSE
        /\ g_events = <<"set_is_gatan(True)", "set_Gatan">>
        /\ engine.run # g_requests

\* the robot call of the switch into Gatan mode has raised
C9_Witness ==
    /\ command \in AcquireCommands
    /\ g_error = HandOffError(TRUE)
    /\ g_pc = "dead"

\* C10: once the engine has run the script of the current request to its end
\* and saved the artifact, the file the server waits for exists, so the wait
\* ends: the script saves to the path the server polls.
C10_SavedArtifactEndsTheWait ==
    (g_pc = "poll" /\ engine.st = "saved" /\ engine.run = g_requests) =>
        /\ engine.script.save = PollPath
        /\ files[PollPath].exists

\* C11: the wait for the artifact is bounded: when DigitalMicrograph has
\* stopped without saving the file, the server still has a step to take (a
\* timeout that ends the handler), it does not wait for ever.
C11_WaitForArtifactIsBounded ==
    (g_pc = "poll" /\ engine.st = "failed") => ENABLED NextGatan

\* the steps of call_*_script and acquire_*_scan the current request has taken
StepOf(e) ==
    CASE e \in {"unlink", "nothing to unlink"} -> "delete"
      [] e = "exists" -> "poll"
      [] OTHER -> e
StepOrder == <<"render", "write", "delete", "invoke", "poll", "parse">>
IsAcquisitionEvent(e) == StepOf(e) \in {StepOrder[i] : i \in 1..Len(StepOrder)}
AcquisitionSteps ==
    LET evs == SelectSeq(g_events, IsAcquisitionEvent)
    IN  [i \in 1..Len(evs) |-> StepOf(evs[i])]
IsPrefix(s, t) == Len(s) <= Len(t) /\ \A i \in 1..Len(s) : s[i] = t[i]

\* the script text the request being processed asks for
ScriptOfThisRequest(sc) ==
    /\ sc.template = (IF command = "acquire_4dcamera_scan" THEN "4Dcamera" ELSE "stem")
    /\ sc.width = params.pwidth
    /\ sc.height = params.pheight

AcUndone == d.type = "ac" /\ ab_pc \in {"metric", "send"}

IsBeamShiftCall(c) == c.name = "We"

\* C13: abChange(S, undo=False) followed by abChange(S, undo=True), without
\* beam-shift compensation, leaves every aberration of the corrector and the
\* defocus of the microscope at the value it had before the apply, for every
\* correction set, select map and C1_defocus_flag.
C13_AberrationRoundTrip ==
    (AcUndone /\ ~d.bscomp) =>
        /\ \A n \in CorrectorNames : corrector[n] = ab_before.corrector[n]
        /\ defocus = ab_before.defocus

\* a set that moves the defocus and a y component has been applied and undone
C13_Witness ==
    /\ AcUndone
    /\ ~d.bscomp
    /\ d.C1_defocus_flag
    /\ \E i, j \in 1..Len(d.ab_values) :
          /\ d.ab_values[i] = Entry("C1", 2)
          /\ d.ab_values[j] = Entry("B2_y", -1)
    /\ Len(ab_calls) = 4

\* C14: with bscomp, the beam shift sent on undo is the negation of the beam
\* shift sent on apply, and after apply and undo the beam shift We has the
\* value it had before the apply.
C14_CompensationNegatedOnUndo ==
    (AcUndone /\ d.bscomp) =>
        LET we == SelectSeq(ab_calls, IsBeamShiftCall)
        IN  /\ Len(we) = 2
            /\ we[2].value = <<0 - we[1].value[1], 0 - we[1].value[2]>>
            /\ corrector["We"] = ab_before.corrector["We"]

\* C15: when the 'ac' handler has returned, every aberration, the defocus and
\* the beam shift have the values they had when the command was received.
C15_AcReversesItsDeltas ==
    (d.type = "ac" /\ ab_pc = "send") =>
        Instrument(corrector, defocus) = ab_before

\* center_region has ended: it returned or it raised
CrEnded == cr_pc \in {"returned", "raised"}
WithinTolerance(i) == ~ExceedsTolerance(cr_offsets[i], cr_args.max_distance)
\* a probe was within the tolerance
CrConverged == \E i \in 1..Len(cr_offsets) : WithinTolerance(i)
\* all ntries probes were made and none was within the tolerance
CrAllProbesExceeded ==
    /\ Len(cr_offsets) = cr_args.ntries
    /\ \A i \in 1..Len(cr_offsets) : ~WithinTolerance(i)
\* the message of the ValueError of line 782
DidNotConverge == "Number of attempts to center has exceeded ntries."

\* C16: a centering run in which a probe was within the tolerance ends with
\* success at the first such probe, after exactly one stage move for each
\* earlier probe and no move after it.
C16_CenteringSucceedsAtFirstProbeWithinTolerance ==
    (CrEnded /\ CrConverged) =>
        /\ cr_pc = "returned"
        /\ WithinTolerance(Len(cr_offsets))
        /\ \A i \in 1..(Len(cr_offsets) - 1) : ~WithinTolerance(i)
        /\ Len(cr_moves) = Len(cr_offsets) - 1

\* C17: center_region raises the did-not-converge error exactly when all
\* ntries probes (none when ntries = 0) exceeded the tolerance; a run that
\* converged returns normally and an exhausted run never does.
C17_DidNotConvergeIffNoProbeWithinTolerance ==
    CrEnded =>
        /\ CrAllProbesExceeded => (cr_pc = "raised" /\ cr_error = DidNotConverge)
        /\ cr_error = DidNotConverge => CrAllProbesExceeded
        /\ CrConverged => cr_pc = "returned"

\* C18: whatever the clients send and in whatever order, at most one request
\* handler is in progress; a request that arrived while a handler runs stays
\* in the socket's queue, and the request in progress is the only one that
\* has left the queue without a reply.
C18_OneHandlerAtATime ==
    /\ Cardinality(in_progress) <= 1
    /\ srv_pc \in {"handler", "send"} => in_progress = {srv_request}
    /\ srv_pc = "recv" => in_progress = {}
    /\ \A i \in 1..Len(srv_queue) : srv_queue[i] \notin in_progress

\* a request of another client waits in the queue while a handler runs
C18_Witness ==
    /\ srv_pc = "handler"
    /\ srv_queue # <<>>
    /\ Head(srv_queue).client # srv_request.client

\* C19: when a call of send_traffic has timed out waiting for the reply, a
\* later call of the same client does not raise, its request is accepted by
\* the socket, and a response it returns is the reply to its own request.
C19_RequestAfterTimeoutIsAnswered ==
    \A c \in Clients :
        (cl_timed_out[c] > 0 /\ cl_calls[c] > cl_timed_out[c]) =>
            /\ cl_pc[c] # "raised"
            /\ (cl_pc[c] = "idle" /\ cl_ret[c].kind = "response") =>
                   cl_ret[c].req = Request(c, cl_calls[c])

\* the calls abChange made for the entries of ab_values, without the
\* beam-shift compensation
IsEntryCall(c) == ~IsBeamShiftCall(c)
EntryCalls == SelectSeq(ab_calls, IsEntryCall)
NonZeroEntries == {i \in 1..Len(d.ab_values) : d.ab_values[i].val # 0}
\* runs of abChange that have returned
AbChangeRuns ==
    CASE ab_pc \in {"metric", "send"} /\ d.type = "ac" -> 2
      [] ab_pc \in {"acquire", "undo"} -> 1
      [] ab_pc = "send" /\ d.type = "ab_only" -> 1
      [] OTHER -> 0

\* C23: when 'ab_only' has applied a delta set, the corrector and the
\* microscope have received exactly one call for each entry whose delta is
\* not zero and none for an entry whose delta is zero.
C23_OneCallPerNonZeroEntry ==
    (d.type = "ab_only" /\ ab_pc = "send") =>
        Len(EntryCalls) = Cardinality(NonZeroEntries)

IsDefocusCall(c) == c.fn = "change_defocus"
IsCorrectorC1Call(c) == c.fn = "correctAberration" /\ c.name = "C1"
C1Entries == {i \in 1..Len(d.ab_values) : d.ab_values[i].key = "C1"}

\* C24: for each run of abChange that has returned, a C1 entry has caused
\* exactly one call: change_defocus and no corrector call for C1 when
\* C1_defocus_flag is true, a corrector call for C1 and no change_defocus
\* when it is false; on apply and on undo.
C24_DefocusRoutedToExactlyOne ==
    ab_pc \notin {"off", "dead"} =>
        LET df == Len(SelectSeq(ab_calls, IsDefocusCall))
            c1 == Len(SelectSeq(ab_calls, IsCorrectorC1Call))
            n == AbChangeRuns * Cardinality(C1Entries)
        IN  IF d.C1_defocus_flag THEN df = n /\ c1 = 0
                                 ELSE df = 0 /\ c1 = n

\* apply and undo of a set with a C1 entry have run with the flag set
C24_Witness ==
    /\ AcUndone
    /\ d.C1_defocus_flag
    /\ C1Entries # {}
    /\ Len(SelectSeq(ab_calls, IsDefocusCall)) = 2

\* C25: the calls undo makes for the entries of ab_values name the same
\* collaborator, aberration and coils as the calls of the apply, in the
\* same order, each with the negated value.
C25_UndoSameOrderNegated ==
    AcUndone =>
        LET n == Len(d.ab_values)
        IN  /\ Len(EntryCalls) = 2 * n
            /\ \A i \in 1..n :
                  /\ EntryCalls[n + i].fn = EntryCalls[i].fn
                  /\ EntryCalls[n + i].name = EntryCalls[i].name
                  /\ EntryCalls[n + i].select = EntryCalls[i].select
                  /\ EntryCalls[n + i].value =
                         <<0 - EntryCalls[i].value[1], 0 - EntryCalls[i].value[2]>>

\* a set of two entries for different aberrations has been applied and undone
C25_Witness ==
    /\ AcUndone
    /\ Len(d.ab_values) = 2
    /\ EntryCalls[1].name # EntryCalls[2].name
    /\ d.ab_values[1].val # 0
    /\ d.ab_values[2].val # 0

\* C21: a step of the microscope server changes the stored reference image
\* only if it is the handler of 'ref', and then the new reference image is
\* the image acquired in that step; when 'ref' is about to be answered the
\* reference image is the latest image and the payload of the reply.
C21_RefImageReplacedOnlyByRef ==
    /\ [](instruction = "ref" /\ m_pc = "send" =>
              refImage = Image(frames) /\ reply_data = refImage)
    /\ [][refImage' # refImage =>
              /\ instruction = "ref"
              /\ frames' = frames + 1
              /\ refImage' = Image(frames')]_vars

\* 'image' has acquired a second image after 'ref' stored the first
C21_Witness ==
    /\ instruction = "image"
    /\ m_pc = "send"
    /\ frames = 2
    /\ refImage = Image(1)
    /\ reply_data = Image(2)

\* the microscope server has sent the reply to the request in `instruction`
MicReplied == m_pc = "recv" /\ m_replies > 0

\* C22: every reply has an error field; the reply to an unrecognized request
\* has the error set and carries no payload, the reply to a request that
\* succeeded has the error field null.
C22_ExactlyOneOfPayloadAndError ==
    MicReplied =>
        /\ "error" \in DOMAIN m_sent
        /\ IF instruction \in MicInstructions
             THEN ReplyError(m_sent) = None
             ELSE ReplyError(m_sent) # None /\ m_sent.reply_data = NoData

\* C29: a ping that was received is answered: the handler does not end the
\* server, the reply has the text 'pinged', no payload and no error, and the
\* reference image and the instrument are as they were when it was received.
C29_PingIsAnsweredAndChangesNothing ==
    instruction = "ping" =>
        /\ m_pc # "dead"
        /\ instVars = m_at_recv
        /\ m_pc = "send" => reply_message = "pinged" /\ reply_data = NoData
        /\ MicReplied =>
              /\ m_sent.reply_message = "pinged"
              /\ m_sent.reply_data = NoData
              /\ ReplyError(m_sent) = None

\* a ping has been answered by a server that holds a reference image
C29_Witness ==
    /\ instruction = "ping"
    /\ MicReplied
    /\ m_replies = 2
    /\ refImage = Image(1)

\* C26: registration of an image with itself returns the zero offset, for
\* every square image: even side, odd side, constant.
C26_RegistrationIdentity ==
    (reg_in.shift = <<0, 0>> /\ Len(reg_out) >= 1) => reg_out[1] = <<0, 0>>

\* C27: for the same two images, registration with twice the pixel
\* calibration returns twice the offset, in both components.
C27_RegistrationScaling ==
    Len(reg_out) = 2 =>
        reg_out[2] = <<2 * reg_out[1][1], 2 * reg_out[1][2]>>

\* two different images whose offset is not zero in either component have
\* been registered with both calibrations
C27_Witness ==
    /\ Len(reg_out) = 2
    /\ reg_in.shift # <<0, 0>>
    /\ reg_in.pixelSize = 3
    /\ reg_out[1][1] # 0
    /\ reg_out[1][2] # 0

\* the calls made for the best estimate, the beam-shift compensation aside
IsBestCall(e) == e.phase = "best" /\ IsEntryCall(e.call)
BestCalls == SelectSeq(af_log, IsBestCall)
\* the focus: the defocus of the microscope and C1 of the corrector
FocusOf(ins) == ins.defocus + ins.corrector["C1"][1]

\* C30: when focus_stem_image has finished, the best estimate of the
\* optimizer has been applied exactly once, not negated, and nothing has
\* reversed it: the focus is its value at the start (0) plus the estimate.
C30_BestEstimateAppliedOnceAndKept ==
    af_pc = "finished" =>
        /\ Len(BestCalls) = 1
        /\ BestCalls[1].call.value = <<model_max, 0>>
        /\ IsDefocusCall(BestCalls[1].call) \/ IsCorrectorC1Call(BestCalls[1].call)
        /\ FocusOf(af_ins) = model_max

\* focusing has finished after samples with a best estimate that is not zero
C30_Witness ==
    /\ af_pc = "finished"
    /\ model_max # 0
    /\ \E i \in 1..Len(af_log) : af_log[i].phase = "sample" /\ af_log[i].call.value[1] # 0

\* scan parameters no scan can have: a width or a height that is not positive
InvalidScanParams(p) == p.pwidth <= 0 \/ p.pheight <= 0

\* C28: an acquisition request with invalid scan parameters is rejected with
\* an error: its handler writes no script, does not invoke the engine and
\* does not end the server.
C28_InvalidParametersAreRejected ==
    (command \in AcquireCommands /\ InvalidScanParams(params)) =>
        /\ ~Occurs("write")
        /\ ~Occurs("invoke")
        /\ g_pc # "dead"

\* the request being processed has been handled: its reply is built or sent
TemCompleted == t_pc \in {"send", "recv"} /\ t_requests > 0

\* C31: a getter request does not end the server, changes neither the
\* instrument nor the reference image, and is answered with a reply that
\* carries a message and data.
C31_GettersAnswerAndChangeNothing ==
    t_d.type \in GetterInstructions =>
        /\ t_pc # "dead"
        /\ AtRecv = t_at_recv
        /\ TemCompleted => (t_reply.reply_message # None /\ t_reply.reply_data # <<>>)

\* C32: when a move_stage request has completed whose deltas are the negation
\* of those of the stage command before it, the stage is at the position it
\* had before that command; requests that are no stage commands may lie
\* between the two.
C32_StageRoundTrip ==
    (TemCompleted /\ t_d.type = "move_stage" /\ t_last_move.request = t_requests
        /\ t_last_move.prev_request > 0
        /\ t_last_move.delta = Negated(t_last_move.prev_delta)) =>
            tem.stage = t_last_move.prev_before

\* a move by deltas that are all non-zero has been followed by the move back
C32_Witness ==
    /\ TemCompleted
    /\ t_d.type = "move_stage"
    /\ t_last_move.request = t_requests
    /\ t_last_move.prev_request > 0
    /\ t_last_move.prev_delta = <<1, -2, 3, -1, 2>>
    /\ t_last_move.delta = <<-1, 2, -3, 1, -2>>

C39_TiltUndoneAndBeamBlanked ==
    (TemCompleted /\ t_d.type = "c1a1") =>
        /\ t_log = <<"tilt", "unblank", "measureC1A1", "blank", "tilt back">>
        /\ t_wd = t_at_recv.wd
        /\ tem.BeamBlanked

\* a c1a1 request with a tilt that is not zero has completed
C39_Witness ==
    /\ TemCompleted
    /\ t_d.type = "c1a1"
    /\ t_d.tilt # NoTilt
    /\ ~t_at_recv.tem.BeamBlanked

\* C34: a completed request of set_stem_rotation_angle has set the rotation
\* of the instrument to the requested angle and its reply carries a message;
\* the reply to get_stem_rotation_angle carries the rotation.
C34_RotationToolsReachTheInstrument ==
    /\ (TemCompleted /\ t_d.type = "set_stem_rotation_angle") =>
           (tem.rotation = t_d.val /\ t_reply.reply_message # None)
    /\ (TemCompleted /\ t_d.type = "get_stem_rotation_angle") =>
           t_reply.reply_data = <<tem.rotation>>

\* C33: once delete_data_in_memory has been called, no file_id that was in
\* memory then is listed by get_loaded_data (the list is empty when nothing
\* was loaded since) and none retrieves data or metadata.
C33_DeletedDataIsGone ==
    /\ nc_ret.tool = "get_loaded_data" => nc_ret.ids \cap freed = {}
    /\ (nc_ret.tool \in {"retrieve_metadata", "calculate_image_statistics"}
            /\ nc_ret.arg \in freed) => nc_ret.raised

\* the commands of lines 55-56 and 82-87, which call no set_is_gatan
ModeNeutralCommands == {"tia_or_gatan", "set_roi", "move_beam"}

\* tia_or_gatan, set_roi and move_beam leave the tracked mode and the robot alone
ModeNeutralCommandsKeepMode ==
    command \in ModeNeutralCommands =>
        /\ is_gatan = mode_at_recv
        /\ SelectSeq(g_events, IsModeEvent) = <<>>
        /\ SelectSeq(g_events, IsRobotEvent) = <<>>

\* C36 as stated: after every completed request the tracked mode equals the
\* position last successfully commanded to the robot (initially Interactive),
\* and tia_or_gatan, set_roi and move_beam never change the tracked mode.
C36_TrackedModeIsRobotPosition_AsStated ==
    /\ g_pc \in {"send", "recv"} => is_gatan = robot
    /\ ModeNeutralCommandsKeepMode

\* C36 (amended): on a server that does not run in simulation mode the tracked
\* mode equals the position last successfully commanded to the robot
\* (initially Interactive) after every completed request and also after a
\* hand-off that failed, the mode being assigned only once the robot call
\* has returned; with or without simulation, tia_or_gatan, set_roi and
\* move_beam never change the tracked mode.
C36_TrackedModeIsRobotPositionOutsideSimulation ==
    /\ ~SIM => is_gatan = robot
    /\ ModeNeutralCommandsKeepMode

\* outside simulation a request has completed in Scripted mode after an
\* earlier request, and a hand-off has been made in it
C36_Witness ==
    /\ ~SIM
    /\ g_pc = "recv"
    /\ g_replies >= 2
    /\ is_gatan
    /\ robot
    /\ Occurs("set_Gatan")

\* center_region has made at most ntries acquisitions, registrations and moves
CrWithinBudget ==
    /\ ii <= cr_args.ntries
    /\ Len(cr_offsets) <= ii
    /\ Len(cr_moves) <= Len(cr_offsets)

\* a run in which all ntries probes exceeded the tolerance has ended after a
\* move for the last probe: as many moves as probes, the last one by the last
\* offset, and no probe after it
CrLastMoveUnmeasured ==
    (CrEnded /\ CrAllProbesExceeded /\ cr_args.ntries > 0
        /\ cr_error # "acquire_image raised") =>
        /\ Len(cr_moves) = cr_args.ntries
        /\ Len(cr_offsets) = cr_args.ntries
        /\ LET offset == cr_offsets[cr_args.ntries]
               cal == cr_args.image_stage_cal_factor
           IN  cr_moves[cr_args.ntries] = <<offset[1] * cal, offset[2] * cal>>

\* C35: center_region makes at most ntries image acquisitions and at most
\* ntries stage moves whatever offsets are measured, every run ends, and a run
\* that exhausts its tries ends after a stage move that no probe follows.
C35_CenteringIsBoundedAndEnds ==
    /\ [](CrWithinBudget /\ CrLastMoveUnmeasured)
    /\ <>CrEnded

\* a run of MaxTries probes, all beyond the tolerance, has ended after
\* MaxTries moves
C35_Witness ==
    /\ CrEnded
    /\ cr_args.ntries = MaxTries
    /\ CrAllProbesExceeded
    /\ Len(cr_moves) = MaxTries

ToolEnded == g_tool_pc \in {"returned", "raised"}

\* C37: when acquire_4D_scan has ended and the server is in no handler, the
\* tracked mode is Interactive, whatever it was when the tool was called; in
\* the tool's acquisition request the server calls no set_is_gatan and makes
\* no robot call.
C37_FourDScanLeavesInteractive ==
    /\ (g_tool.name = "acquire_4D_scan" /\ ToolEnded /\ g_pc \in {"recv", "dead"}) =>
           ~is_gatan
    /\ (g_tool.name = "acquire_4D_scan" /\ g_tool_sent = 2) =>
           /\ SelectSeq(g_events, IsModeEvent) = <<>>
           /\ SelectSeq(g_events, IsRobotEvent) = <<>>

\* C40: the move-beam script written for a call move_beam_dm(dX, dY) adds dX
\* to the X (fast-scan) position of the beam and dY to its Y (slow-scan)
\* position.
C40_BeamMovedByDXAlongXAndDYAlongY ==
    (g_tool.name = "move_beam_dm" /\ command = "move_beam" /\ g_pc \in {"send", "recv", "dead"}
        /\ g_tool_sent = 1) =>
        /\ scripts[MBSCRIPT].addX = g_tool.dX
        /\ scripts[MBSCRIPT].addY = g_tool.dY

\* every message of acquire_4D_scan has been answered
FourDScanAnswered ==
    /\ g_tool.name = "acquire_4D_scan"
    /\ g_tool_pc = "returned"
    /\ g_pc = "recv"
    /\ command = "set_tia"
    /\ g_sent.tag = "is_gatan"

\* when every message of acquire_4D_scan has been answered the mode is Interactive
FourDScanAnsweredLeavesInteractive == FourDScanAnswered => ~is_gatan

====
